---- MODULE Spec2Model ----
(***************************************************************************)
(* A model of the A-share insight report generator:                        *)
(*   - the cache store (cache_data, get_incremental_daily_data,            *)
(*     clean_old_cache of a_share_insight.py, cache_pkl of                 *)
(*     a_share_insight_v2.py),                                             *)
(*   - the tencent index adapter get_index_tx of a_share_insight_v2.py,    *)
(*   - the run pipeline AdvancedStockAnalyzer.run_analysis.                *)
(* Strings that the code builds, matches or compares (file names, time     *)
(* strings) are sequences of one-character strings.  A Table is a sequence *)
(* of rows; pd.DataFrame() is the empty sequence.                          *)
(***************************************************************************)
EXTENDS Integers, Sequences, FiniteSets, TLC

VARIABLES
    program,        \* which of the two scripts the process runs
    now,            \* the wall clock, in hours since the start of day 1
    dir_exists,     \* os.path.exists('../cache')
    disk,           \* the files of ../cache: file name -> pickled Table
    _cache,         \* the module-level dict _cache: file path -> Table
    pkl_disk,       \* the files of CACHE_DIR of a_share_insight_v2.py
    tx_good,        \* observation: per market, the last Table get_index_tx fetched live
    produced,       \* observation: per file path, producer calls since its first success
    last,           \* observation: what the last call did and returned
    pc,             \* run_analysis: the method to run next, or "done", or "crashed"
    run_mode,       \* self.run_mode
    data,           \* self.data: per data set, what kind of Table was fetched
    stock_to_industry_map,  \* self.stock_to_industry_map: what kind of object it is
    analysis_result,        \* self.analysis_result: per indicator, what kind of value
    report,         \* reports/index.html: what was written of it
    raised_in,      \* observation: the steps of the run inside which an exception was raised
    call,           \* observation: what the last adapter call of a_share_insight_v2.py did
    progress_file,  \* the checkpoint etf_tech_progress_<today>.pkl of analyze_etf_technical
    etf_run,        \* observation: what the last run of analyze_etf_technical did
    file,           \* the bytes of one cache file, as a reader finds them
    writer,         \* where the process writing that file stands
    inputs,         \* the inputs of the computation under study
    ret             \* what the computation made of them

cache_vars == <<program, now, dir_exists, disk, _cache, pkl_disk, tx_good, produced, last>>
run_vars == <<pc, run_mode, data, stock_to_industry_map, analysis_result, report, raised_in>>
adapter_vars == <<call>>
etf_vars == <<progress_file, etf_run>>
file_vars == <<file, writer>>
fn_vars == <<inputs, ret>>
aux_vars == <<adapter_vars, etf_vars, file_vars, fn_vars>>
vars == <<cache_vars, run_vars, aux_vars>>

-----------------------------------------------------------------------------
(* Bounds of the model *)

\* the clock runs over the hours 0..MaxHour
MaxHour == 2
\* the hours of one day of the model's clock
HoursPerDay == 2

DayOf(t) == 1 + (t \div HoursPerDay)
HourOf(t) == t % HoursPerDay

-----------------------------------------------------------------------------
(* Strings as sequences of characters *)

Digit == {"0", "1", "2", "3", "4", "5", "6", "7", "8", "9"}

DigitChar(n) ==
    CASE n = 0 -> "0" [] n = 1 -> "1" [] n = 2 -> "2" [] n = 3 -> "3" [] n = 4 -> "4"
      [] n = 5 -> "5" [] n = 6 -> "6" [] n = 7 -> "7" [] n = 8 -> "8" [] n = 9 -> "9"

TwoDigits(n) == <<DigitChar((n \div 10) % 10), DigitChar(n % 10)>>

\* the clock stays inside one month, January 2024
YearMonth == <<"2", "0", "2", "4", "0", "1">>

\* datetime.now().strftime('%Y%m%d')
strftime_Ymd(t) == YearMonth \o TwoDigits(DayOf(t))

\* datetime.now().strftime('%Y%m%d%H')
strftime_YmdH(t) == YearMonth \o TwoDigits(DayOf(t)) \o TwoDigits(HourOf(t))

\* sep.join(parts)
RECURSIVE Join(_, _)
Join(sep, parts) ==
    IF parts = <<>> THEN <<>>
    ELSE IF Len(parts) = 1 THEN parts[1]
    ELSE parts[1] \o sep \o Join(sep, Tail(parts))

\* sub in s
Contains(s, sub) ==
    \E i \in 1..(Len(s) - Len(sub) + 1) : SubSeq(s, i, i + Len(sub) - 1) = sub

PklSuffix == <<".", "p", "k", "l">>
BaseSuffix == <<"_", "b", "a", "s", "e">> \o PklSuffix

\* re.search(r'_(\d{n})\.pkl$', filename): group(1), or <<>> when there is no match
re_search_bucket(n, filename) ==
    LET L == Len(filename) IN
    IF /\ L >= n + 5
       /\ SubSeq(filename, L - 3, L) = PklSuffix
       /\ \A i \in (L - 3 - n)..(L - 4) : filename[i] \in Digit
       /\ filename[L - 4 - n] = "_"
    THEN SubSeq(filename, L - 3 - n, L - 4)
    ELSE <<>>

-----------------------------------------------------------------------------
(* Tables *)

\* pd.DataFrame()
EmptyDataFrame == <<>>

\* a snapshot a provider returns at time t: one row, stamped with the time of the fetch
Snapshot(t) == <<[asof |-> t]>>

\* what data_func(*args, **kwargs) can do at time t: raise, or return a Table
\* (a snapshot, or an empty payload)
ProducerOutcomes(t) ==
    { [raised |-> TRUE, data |-> EmptyDataFrame],
      [raised |-> FALSE, data |-> EmptyDataFrame],
      [raised |-> FALSE, data |-> Snapshot(t)] }

-----------------------------------------------------------------------------
(* The cache store of a_share_insight.py *)

\* the call sites of cache_data: logical name, positional and keyword parameters, frequency
market_activity == <<"m", "a", "r", "k", "e", "t", "_", "a", "c", "t", "i", "v", "i", "t", "y">>
bond_etf == <<"b", "o", "n", "d", "_", "e", "t", "f">>
symbol == <<"s", "y", "m", "b", "o", "l">>
sh_index == <<"s", "h", "_", "i", "n", "d", "e", "x">>

CacheCalls ==
    { [filename |-> market_activity, args |-> <<>>, kwargs |-> <<>>, frequency |-> "hourly"],
      [filename |-> bond_etf, args |-> <<>>,
       kwargs |-> << <<symbol, <<"5", "1", "1", "2", "6", "0">> >> >>, frequency |-> "daily"] }

\* time_str of cache_data
time_str_day_only(frequency, t) == strftime_Ymd(t)
time_str(frequency, t) == IF frequency = "hourly" THEN strftime_YmdH(t) ELSE strftime_Ymd(t)

\* params_str of cache_data: the positional part and the keyword part, joined without
\* a separator between the two
params_str(args, kwargs) ==
    Join(<<"_">>, args)
      \o Join(<<"_">>, [i \in 1..Len(kwargs) |-> kwargs[i][1] \o <<"_">> \o kwargs[i][2]])

\* unique_filename of cache_data
unique_filename(c, t) ==
    c.filename \o <<"_">> \o params_str(c.args, c.kwargs) \o <<"_">>
      \o time_str(c.frequency, t) \o PklSuffix

\* f with key k set to v (a dict assignment, a file written whole)
Put(f, k, v) == [x \in DOMAIN f \cup {k} |-> IF x = k THEN v ELSE f[x]]

\* what the last call did: its frequency, market or start date (arg), the entry it found
\* (had, entry), whether it called the producer (invoked), whether that raised (failed)
\* and what it returned (batch), whether the call itself raised to its caller (raised),
\* and what it returned (value)
NoCall == [op |-> "none", arg |-> "none", path |-> <<>>, had |-> FALSE,
           entry |-> EmptyDataFrame, invoked |-> FALSE, failed |-> FALSE,
           batch |-> EmptyDataFrame, raised |-> FALSE, value |-> EmptyDataFrame]

\* the entry of path in the two tiers tier1 (looked up first) and tier2, if any
EntryIn(tier1, tier2, path) ==
    IF path \in DOMAIN tier1 THEN tier1[path]
    ELSE IF path \in DOMAIN tier2 THEN tier2[path]
    ELSE EmptyDataFrame

Observed(op, arg, path, tier1, tier2, invoked, failed, value) ==
    [op |-> op, arg |-> arg, path |-> path,
     had |-> path \in DOMAIN tier1 \/ path \in DOMAIN tier2,
     entry |-> EntryIn(tier1, tier2, path),
     invoked |-> invoked, failed |-> failed, batch |-> EmptyDataFrame, raised |-> FALSE,
     value |-> value]

\* one more producer call for path: counted from the first success on
CountProducer(path, ok) ==
    IF path \in DOMAIN produced THEN Put(produced, path, produced[path] + 1)
    ELSE IF ok THEN Put(produced, path, 1)
    ELSE produced

\* the in-memory tier of cache_data: filepath in _cache
MemHit(filepath) == filepath \in DOMAIN _cache

\* the disk tier of cache_data: os.path.exists(filepath)
DiskHitNever(filepath) == FALSE
DiskHit(filepath) == filepath \in DOMAIN disk

\* what cache_data leaves on disk when the producer raised: what was there
FailureDiskEmptyEntry(filepath) == Put(disk, filepath, EmptyDataFrame)
FailureDisk(filepath) == disk

\* cache_data(filename, data_func, *args, frequency=..., **kwargs), with outcome o of
\* data_func should it be called
cache_data(c, o) ==
    LET filepath == unique_filename(c, now)
        Ret(invoked, failed, value) ==
            Observed("cache_data", c.frequency, filepath, _cache, disk, invoked, failed, value)
    IN
    /\ program = "a_share_insight"
    /\ IF MemHit(filepath)
       THEN /\ last' = Ret(FALSE, FALSE, _cache[filepath])
            /\ UNCHANGED <<dir_exists, disk, _cache, produced>>
       ELSE /\ dir_exists' = TRUE
            /\ IF DiskHit(filepath)
               THEN /\ _cache' = Put(_cache, filepath, disk[filepath])
                    /\ last' = Ret(FALSE, FALSE, disk[filepath])
                    /\ UNCHANGED <<disk, produced>>
               ELSE /\ produced' = CountProducer(filepath, ~o.raised)
                    /\ IF o.raised
                       THEN /\ disk' = FailureDisk(filepath)
                            /\ UNCHANGED _cache
                            /\ last' = Ret(TRUE, TRUE, EmptyDataFrame)
                       ELSE /\ disk' = Put(disk, filepath, o.data)
                            /\ _cache' = Put(_cache, filepath, o.data)
                            /\ last' = Ret(TRUE, FALSE, o.data)
    /\ UNCHANGED <<program, now, pkl_disk, tx_good>>
    /\ UNCHANGED run_vars
    /\ UNCHANGED aux_vars

\* whether clean_old_cache removes filename at time t
ExpiredHourlyOnly(filename, t) ==
    IF Contains(filename, BaseSuffix) THEN FALSE
    ELSE LET match_hourly == re_search_bucket(10, filename)
         IN match_hourly # <<>> /\ match_hourly # strftime_YmdH(t)
Expired(filename, t) ==
    IF Contains(filename, BaseSuffix) THEN FALSE
    ELSE LET match_hourly == re_search_bucket(10, filename)
             match_daily == re_search_bucket(8, filename)
         IN IF match_hourly # <<>> /\ match_hourly # strftime_YmdH(t) THEN TRUE
            ELSE match_daily # <<>> /\ match_daily # strftime_Ymd(t)

\* the directory after the sweep of clean_old_cache at time t
Swept(files, t) == [f \in {g \in DOMAIN files : ~Expired(g, t)} |-> files[f]]

\* clean_old_cache()
clean_old_cache ==
    /\ program = "a_share_insight"
    /\ disk' = IF dir_exists THEN Swept(disk, now) ELSE disk
    /\ last' = [NoCall EXCEPT !.op = "clean_old_cache"]
    /\ UNCHANGED <<program, now, dir_exists, _cache, pkl_disk, tx_good, produced>>
    /\ UNCHANGED run_vars
    /\ UNCHANGED aux_vars

-----------------------------------------------------------------------------
(* The cache of a_share_insight_v2.py *)

tx_name == <<"t", "x">>

\* path of cache_pkl: the name and the day; the parameters are not part of it
pkl_path(name, t) == name \o <<"_">> \o strftime_Ymd(t) \o PklSuffix

\* cache_pkl(name, func, *a, **kw), with outcome o of func should it be called
cache_pkl(name, o) ==
    LET path == pkl_path(name, now)
        Ret(invoked, failed, value) ==
            Observed("cache_pkl", "daily", path, pkl_disk, pkl_disk, invoked, failed, value)
    IN
    /\ program = "a_share_insight_v2"
    /\ IF path \in DOMAIN pkl_disk
       THEN /\ last' = Ret(FALSE, FALSE, pkl_disk[path])
            /\ UNCHANGED <<pkl_disk, produced>>
       ELSE /\ produced' = CountProducer(path, ~o.raised)
            /\ IF o.raised
               THEN /\ UNCHANGED pkl_disk
                    /\ last' = Ret(TRUE, TRUE, EmptyDataFrame)
               ELSE /\ pkl_disk' = Put(pkl_disk, path, o.data)
                    /\ last' = Ret(TRUE, FALSE, o.data)
    /\ UNCHANGED <<program, now, dir_exists, disk, _cache, tx_good>>
    /\ UNCHANGED run_vars
    /\ UNCHANGED aux_vars

\* the markets get_index_tx is called for
Markets == {<<"s", "h">>, <<"s", "z">>}

\* cache_file of get_index_tx
tx_cache_file(market) == <<"t", "x", "_">> \o market \o PklSuffix

\* the empty frame with the columns day, close, amount that get_index_tx returns last
EmptyIndexFrame == EmptyDataFrame

\* what requests.get(...).json() and the parsing of it can do at time t: raise (network
\* error, unexpected JSON shape), give no kline, or give the rows of a Table
TxOutcomes(t) ==
    { [raised |-> TRUE, data |-> EmptyDataFrame],
      [raised |-> FALSE, data |-> EmptyDataFrame],
      [raised |-> FALSE, data |-> Snapshot(t)] }

\* get_index_tx(market), with live outcome o
get_index_tx(market, o) ==
    LET cache_file == tx_cache_file(market)
        live_ok == ~o.raised /\ o.data # EmptyDataFrame
        Ret(value) ==
            Observed("get_index_tx", market, cache_file, pkl_disk, pkl_disk, TRUE,
                     ~live_ok, value)
    IN
    /\ program = "a_share_insight_v2"
    /\ market \in Markets
    /\ IF live_ok
       THEN /\ last' = Ret(o.data)
            /\ tx_good' = Put(tx_good, market, o.data)
       ELSE /\ last' = Ret(IF cache_file \in DOMAIN pkl_disk THEN pkl_disk[cache_file]
                           ELSE EmptyIndexFrame)
            /\ UNCHANGED tx_good
    /\ UNCHANGED <<program, now, dir_exists, disk, _cache, pkl_disk, produced>>
    /\ UNCHANGED run_vars
    /\ UNCHANGED aux_vars

-----------------------------------------------------------------------------
(* The analyzer object: AdvancedStockAnalyzer of a_share_insight.py.  A Table *)
(* of self.data is                                                           *)
(* kept by its kind only: "ok" is a non-empty Table with the columns its     *)
(* readers use, "nan" a non-empty Table whose latest main-inflow figure is   *)
(* NaN, "nocol" a non-empty Table without the columns its readers use,       *)
(* "empty" is pd.DataFrame(), "absent" a key that self.data does not hold.   *)
(* The files that the fetches leave in ../cache are the subject of the cache *)
(* store above and are not repeated here.                                    *)

\* the data sets in the order in which fetch_data obtains them
FetchOrder ==
    << "market_fund_flow", "industry_fund_flow", "sh_index", "sz_index", "bond_etf",
       "market_activity", "congestion", "rank_ljqs", "all_a_spot", "sh_margin", "sz_margin" >>
DataSets == {FetchOrder[i] : i \in 1..Len(FetchOrder)}

\* the keys of self.analysis_result that the code assigns; etf_technical is never assigned
Indicators ==
    { "liquidity", "turnover", "margin_trading", "intermarket", "sentiment",
      "sector_heat_map", "market_stage", "final_ranking", "conclusion_raw" }

\* the metric steps of run_analysis, and the indicator each of them assigns
Metrics ==
    { "analyze_market_liquidity", "analyze_market_turnover", "analyze_margin_trading",
      "analyze_intermarket_relationship", "analyze_market_sentiment",
      "analyze_sector_strength", "analyze_market_stage", "comprehensive_scoring" }
IndicatorOf(step) ==
    CASE step = "analyze_market_liquidity" -> "liquidity"
      [] step = "analyze_market_turnover" -> "turnover"
      [] step = "analyze_margin_trading" -> "margin_trading"
      [] step = "analyze_intermarket_relationship" -> "intermarket"
      [] step = "analyze_market_sentiment" -> "sentiment"
      [] step = "analyze_sector_strength" -> "sector_heat_map"
      [] step = "analyze_market_stage" -> "market_stage"
      [] step = "comprehensive_scoring" -> "final_ranking"

\* print_report not yet entered, reports/index.html not written
NoReport == [entered |-> FALSE, written |-> FALSE, sections |-> {}]

\* AdvancedStockAnalyzer.__init__, with run_analysis not yet called
AnalyzerInit ==
    /\ pc = "run_analysis"
    /\ run_mode = "None"
    /\ data = [n \in DataSets |-> "absent"]
    /\ stock_to_industry_map = "empty_dict"
    /\ analysis_result = [k \in Indicators |-> "unset"]
    /\ report = NoReport
    /\ raised_in = {}

\* nothing has been called, written or computed yet
NoAdapterCall == [op |-> "none"]
NoFile == [exists |-> FALSE]
AuxInit ==
    /\ call = NoAdapterCall
    /\ progress_file = NoFile
    /\ etf_run = [op |-> "none"]
    /\ file = NoFile
    /\ writer = "idle"
    /\ inputs = << >>
    /\ ret = << >>

-----------------------------------------------------------------------------
(* The environment of the cache store *)

\* the wall clock moves on by one hour
Tick ==
    /\ now < MaxHour
    /\ now' = now + 1
    /\ last' = NoCall
    /\ UNCHANGED <<program, dir_exists, disk, _cache, pkl_disk, tx_good, produced>>
    /\ UNCHANGED run_vars
    /\ UNCHANGED aux_vars

\* the process ends and a new one starts: the module-level _cache = {} again
Restart ==
    /\ program = "a_share_insight"
    /\ _cache' = << >>
    /\ last' = NoCall
    /\ UNCHANGED <<program, now, dir_exists, disk, pkl_disk, tx_good, produced>>
    /\ UNCHANGED run_vars
    /\ UNCHANGED aux_vars

\* files an earlier run may have left in ../cache: an hourly entry of an earlier day, the
\* base file of an incremental series, and a file that is no cache entry
StaleTable == <<[asof |-> -1]>>
SeedFiles ==
    { market_activity \o <<"_", "_">> \o <<"2", "0", "2", "3", "1", "2", "3", "1", "2", "3">>
        \o PklSuffix,
      sh_index \o BaseSuffix,
      <<"t", "x", "_", "s", "h">> \o PklSuffix }

\* a file someone may have put in CACHE_DIR of a_share_insight_v2.py: no code writes it
TxSeedFiles == {tx_cache_file(<<"s", "h">>)}

CacheInit ==
    /\ program \in {"a_share_insight", "a_share_insight_v2"}
    /\ now = 0
    /\ dir_exists \in BOOLEAN
    /\ \E S \in {{}, SeedFiles} :
          /\ dir_exists \/ S = {}
          /\ program = "a_share_insight" \/ (S = {} /\ dir_exists)
          /\ disk = [f \in S |-> StaleTable]
    /\ _cache = << >>
    /\ \E S \in {{}, TxSeedFiles} :
          /\ program = "a_share_insight_v2" \/ S = {}
          /\ pkl_disk = [f \in S |-> StaleTable]
    /\ tx_good = << >>
    /\ produced = << >>
    /\ last = NoCall
    /\ AnalyzerInit
    /\ AuxInit

CacheNext ==
    \/ \E c \in CacheCalls : \E o \in ProducerOutcomes(now) : cache_data(c, o)
    \/ clean_old_cache
    \/ Restart
    \/ \E o \in ProducerOutcomes(now) : cache_pkl(tx_name, o)
    \/ \E m \in Markets : \E o \in TxOutcomes(now) : get_index_tx(m, o)
    \/ Tick

SpecCache == CacheInit /\ [][CacheNext]_vars

-----------------------------------------------------------------------------
(* Incremental daily series: get_incremental_daily_data of a_share_insight.py *)

\* the days of the incremental model's clock
MaxDay == 2
\* the most rows a provider returns in one batch
MaxBatch == 2

Today(t) == DayOf(t)

\* date.strftime('%Y%m%d') for day d of the model's month
date_Ymd(d) == YearMonth \o TwoDigits(d)

DigitVal(ch) == CHOOSE n \in 0..9 : DigitChar(n) = ch

\* a <= b on Python strings (here: digits), compared code point by code point
RECURSIVE StrLE(_, _)
StrLE(a, b) ==
    IF a = <<>> THEN TRUE
    ELSE IF b = <<>> THEN FALSE
    ELSE IF DigitVal(Head(a)) < DigitVal(Head(b)) THEN TRUE
    ELSE IF DigitVal(Head(a)) > DigitVal(Head(b)) THEN FALSE
    ELSE StrLE(Tail(a), Tail(b))

DatesOf(df) == {df[i].date : i \in 1..Len(df)}

\* pd.to_datetime(df[date_col_name]).max(), df not empty
MaxDate(df) == CHOOSE d \in DatesOf(df) : \A e \in DatesOf(df) : e <= d

\* the rows of df at the places keep, in their order
RECURSIVE SelectRows(_, _, _)
SelectRows(df, keep, i) ==
    IF i > Len(df) THEN <<>>
    ELSE (IF i \in keep THEN <<df[i]>> ELSE <<>>) \o SelectRows(df, keep, i + 1)

\* df.drop_duplicates(subset=[date_col_name], keep='last')
drop_duplicates_keep_first(df) ==
    SelectRows(df, {i \in 1..Len(df) : \A j \in 1..(i - 1) : df[j].date # df[i].date}, 1)
drop_duplicates_keep_last(df) ==
    SelectRows(df, {i \in 1..Len(df) : \A j \in (i + 1)..Len(df) : df[j].date # df[i].date}, 1)

\* df_updated of get_incremental_daily_data
MergedNewOnly(df_base, df_new) == drop_duplicates_keep_last(df_new)
Merged(df_base, df_new) == drop_duplicates_keep_last(df_base \o df_new)

\* what get_incremental_daily_data returns when the extension failed or brought nothing
AfterFailedExtensionEmpty(df_base) == EmptyDataFrame
AfterFailedExtension(df_base) == df_base

\* the batches data_func can return on day today: rows of days up to today, each
\* carrying the provider's figure as of the day of the fetch
RECURSIVE BatchesOfLen(_, _)
BatchesOfLen(n, today) ==
    IF n = 0 THEN {<<>>}
    ELSE {<<[date |-> d, val |-> today]>> \o b : d \in 1..today, b \in BatchesOfLen(n - 1, today)}

SeriesOutcomes(t) ==
    {[raised |-> TRUE, data |-> EmptyDataFrame]}
      \cup {[raised |-> FALSE, data |-> b] :
              b \in UNION {BatchesOfLen(n, Today(t)) : n \in 0..MaxBatch}}

\* get_incremental_daily_data(base_filename, data_func, date_col_name, ...), with
\* outcome o of data_func should it be called
get_incremental_daily_data(base_filename, o) ==
    LET base_filepath == base_filename \o BaseSuffix
        Ret(arg, invoked, failed, batch, raised, value) ==
            [op |-> "get_incremental_daily_data", arg |-> arg, path |-> base_filepath,
             had |-> base_filepath \in DOMAIN disk,
             entry |-> EntryIn(disk, disk, base_filepath),
             invoked |-> invoked, failed |-> failed, batch |-> batch, raised |-> raised,
             value |-> value]
    IN
    /\ program = "a_share_insight"
    /\ dir_exists' = TRUE
    /\ IF base_filepath \in DOMAIN disk
       THEN LET df_base == disk[base_filepath] IN
            IF df_base = EmptyDataFrame
            THEN \* df_base[date_col_name] of a frame without columns, or strftime of NaT
                 /\ last' = Ret("none", FALSE, FALSE, EmptyDataFrame, TRUE, EmptyDataFrame)
                 /\ UNCHANGED disk
            ELSE LET start_date == date_Ymd(MaxDate(df_base) + 1)
                     today_str == strftime_Ymd(now)
                 IN IF StrLE(start_date, today_str)
                    THEN IF ~o.raised /\ o.data # EmptyDataFrame
                         THEN /\ disk' = Put(disk, base_filepath, Merged(df_base, o.data))
                              /\ last' = Ret(start_date, TRUE, FALSE, o.data, FALSE,
                                             Merged(df_base, o.data))
                         ELSE /\ UNCHANGED disk
                              /\ last' = Ret(start_date, TRUE, o.raised, o.data, FALSE,
                                             AfterFailedExtension(df_base))
                    ELSE /\ UNCHANGED disk
                         /\ last' = Ret(start_date, FALSE, FALSE, EmptyDataFrame, FALSE, df_base)
       ELSE IF o.raised
            THEN /\ UNCHANGED disk
                 /\ last' = Ret("19900101", TRUE, TRUE, EmptyDataFrame, FALSE, EmptyDataFrame)
            ELSE /\ disk' = Put(disk, base_filepath, o.data)
                 /\ last' = Ret("19900101", TRUE, FALSE, o.data, FALSE, o.data)
    /\ UNCHANGED <<program, now, _cache, pkl_disk, tx_good, produced>>
    /\ UNCHANGED run_vars
    /\ UNCHANGED aux_vars

\* the next day
TickDay ==
    /\ Today(now) < MaxDay
    /\ now' = now + HoursPerDay
    /\ last' = NoCall
    /\ UNCHANGED <<program, dir_exists, disk, _cache, pkl_disk, tx_good, produced>>
    /\ UNCHANGED run_vars
    /\ UNCHANGED aux_vars

IncrInit ==
    /\ program = "a_share_insight"
    /\ now = 0
    /\ dir_exists \in BOOLEAN
    /\ \E S \in {{}, {f \in SeedFiles : ~Contains(f, BaseSuffix)}} :
          /\ dir_exists \/ S = {}
          /\ disk = [f \in S |-> StaleTable]
    /\ _cache = << >>
    /\ pkl_disk = << >>
    /\ tx_good = << >>
    /\ produced = << >>
    /\ last = NoCall
    /\ AnalyzerInit
    /\ AuxInit

IncrNext ==
    \/ \E o \in SeriesOutcomes(now) : get_incremental_daily_data(sh_index, o)
    \/ clean_old_cache
    \/ TickDay

SpecIncr == IncrInit /\ [][IncrNext]_vars

-----------------------------------------------------------------------------
(* The run pipeline: AdvancedStockAnalyzer.run_analysis of a_share_insight.py *)

\* the run mode that run_analysis derives from the wall clock
RunModeOf(hour, weekday) ==
    IF 9 <= hour /\ hour < 12 /\ weekday < 5 THEN "LIVE_MORNING"
    ELSE IF 12 <= hour /\ hour < 13 /\ weekday < 5 THEN "MIDDAY_SUMMARY"
    ELSE IF 13 <= hour /\ hour < 15 /\ weekday < 5 THEN "LIVE_AFTERNOON"
    ELSE "POST_MARKET"

\* run_analysis up to the call of fetch_data: the run mode, then clean_old_cache()
run_analysis ==
    /\ pc = "run_analysis"
    /\ \E hour \in 0..23, weekday \in 0..6 : run_mode' = RunModeOf(hour, weekday)
    /\ disk' = IF dir_exists THEN Swept(disk, now) ELSE disk
    /\ last' = [NoCall EXCEPT !.op = "clean_old_cache"]
    /\ pc' = "fetch_data"
    /\ UNCHANGED <<program, now, dir_exists, _cache, pkl_disk, tx_good, produced>>
    /\ UNCHANGED <<data, stock_to_industry_map, analysis_result, report, raised_in>>
    /\ UNCHANGED aux_vars

\* what cache_data can hand to _build_stock_industry_map: the dict of the producer, which
\* is empty when every board failed, or pd.DataFrame() when the producer raised
MapOutcomes == {"dict", "empty_dict", "empty_frame"}

\* what a fetch of a data set can do.  The two direct provider calls return a Table or
\* raise; get_incremental_daily_data returns the series, returns pd.DataFrame() when the
\* seeding failed, or raises on an empty base; cache_data returns a Table, or
\* pd.DataFrame() when the producer raised
FetchOutcomes(n) ==
    CASE n = "market_fund_flow" -> {"ok", "nan", "empty", "raise"}
      [] n = "industry_fund_flow" -> {"ok", "nocol", "empty", "raise"}
      [] n \in {"sh_index", "sz_index"} -> {"ok", "empty", "raise"}
      [] n = "rank_ljqs" -> {"ok", "nocol", "empty"}
      [] OTHER -> {"ok", "empty"}

\* the position in FetchOrder of the first fetch that raises, or Len(FetchOrder) + 1
FirstRaise(fetched) ==
    LET raising == {i \in 1..Len(FetchOrder) : fetched[FetchOrder[i]] = "raise"}
    IN IF raising = {} THEN Len(FetchOrder) + 1
       ELSE CHOOSE i \in raising : \A j \in raising : i <= j

\* self.data after fetch_data met the outcomes fetched: the fetches before the first
\* raising one are stored
DataAfter(fetched) ==
    LET k == FirstRaise(fetched)
    IN [n \in DataSets |->
          LET i == CHOOSE j \in 1..Len(FetchOrder) : FetchOrder[j] = n
          IN IF i < k THEN fetched[n] ELSE "absent"]

\* fetch_data(), and what run_analysis does with its result: the metrics follow when it
\* returns True, the run ends when it returns False
fetch_data ==
    /\ pc = "fetch_data"
    /\ \E m \in MapOutcomes,
          o1 \in FetchOutcomes("market_fund_flow"), o2 \in FetchOutcomes("industry_fund_flow"),
          o3 \in FetchOutcomes("sh_index"), o4 \in FetchOutcomes("sz_index"),
          o5 \in FetchOutcomes("bond_etf"), o6 \in FetchOutcomes("market_activity"),
          o7 \in FetchOutcomes("congestion"), o8 \in FetchOutcomes("rank_ljqs"),
          o9 \in FetchOutcomes("all_a_spot"), o10 \in FetchOutcomes("sh_margin"),
          o11 \in FetchOutcomes("sz_margin") :
          LET outcomes == <<o1, o2, o3, o4, o5, o6, o7, o8, o9, o10, o11>>
              fetched == [n \in DataSets |->
                            outcomes[CHOOSE j \in 1..Len(FetchOrder) : FetchOrder[j] = n]]
          IN /\ stock_to_industry_map' = m
             /\ data' = DataAfter(fetched)
             /\ pc' = IF FirstRaise(fetched) > Len(FetchOrder)
                      THEN "analyze_market_liquidity" ELSE "done"
             /\ raised_in' = IF FirstRaise(fetched) > Len(FetchOrder)
                             THEN raised_in ELSE raised_in \cup {"fetch_data"}
    /\ UNCHANGED cache_vars
    /\ UNCHANGED aux_vars
    /\ UNCHANGED <<run_mode, analysis_result, report>>

\* whether self.data holds a non-empty Table under n
NonEmpty(n) == data[n] \notin {"absent", "empty"}

\* a metric step whose body is one try block: the indicator is computed when the body
\* runs through, and is {} when the body raises; the next step follows either way
TriedMetric(step, runs_through, value, next) ==
    /\ pc = step
    /\ analysis_result' =
          [analysis_result EXCEPT ![IndicatorOf(step)] = IF runs_through THEN value ELSE "empty"]
    /\ raised_in' = IF runs_through THEN raised_in ELSE raised_in \cup {step}
    /\ pc' = next
    /\ UNCHANGED cache_vars
    /\ UNCHANGED aux_vars
    /\ UNCHANGED <<run_mode, data, stock_to_industry_map, report>>

\* the main_net_inflow of the liquidity indicator is 'nan亿元' when the figure is NaN
analyze_market_liquidity ==
    TriedMetric("analyze_market_liquidity",
                NonEmpty("market_fund_flow") /\ NonEmpty("sh_index") /\ NonEmpty("sz_index"),
                IF data["market_fund_flow"] = "nan" THEN "nan" ELSE "value",
                "analyze_market_turnover")

analyze_market_turnover ==
    TriedMetric("analyze_market_turnover", NonEmpty("all_a_spot"), "value",
                "analyze_margin_trading")

analyze_margin_trading ==
    TriedMetric("analyze_margin_trading",
                NonEmpty("sh_margin") /\ NonEmpty("sz_margin") /\ NonEmpty("all_a_spot"),
                "value", "analyze_intermarket_relationship")

analyze_intermarket_relationship ==
    TriedMetric("analyze_intermarket_relationship",
                NonEmpty("sh_index") /\ NonEmpty("bond_etf"), "value",
                "analyze_market_sentiment")

\* rank_ljqs is only counted with len() here
analyze_market_sentiment ==
    TriedMetric("analyze_market_sentiment",
                NonEmpty("market_activity") /\ NonEmpty("congestion"), "value",
                "analyze_sector_strength")

\* analyze_sector_strength has no try block.  With a non-empty rank_ljqs the truth value
\* of self.stock_to_industry_map is taken, which raises for a DataFrame; with a non-empty
\* dict the columns 股票代码 of rank_ljqs and 板块名称 of the renamed fund flow are read
analyze_sector_strength ==
    /\ pc = "analyze_sector_strength"
    /\ LET industry_flow == data["industry_fund_flow"]
           ljqs_nonempty == NonEmpty("rank_ljqs")
           truth_raises == ljqs_nonempty /\ stock_to_industry_map = "empty_frame"
           counts == ljqs_nonempty /\ stock_to_industry_map = "dict"
           key_error == counts /\ (data["rank_ljqs"] = "nocol" \/ industry_flow = "nocol")
       IN IF industry_flow \in {"absent", "empty"}
          THEN /\ analysis_result' = [analysis_result EXCEPT !["sector_heat_map"] = "empty"]
               /\ pc' = "analyze_market_stage"
               /\ UNCHANGED raised_in
          ELSE IF truth_raises \/ key_error
          THEN /\ pc' = "crashed"
               /\ raised_in' = raised_in \cup {"analyze_sector_strength"}
               /\ UNCHANGED analysis_result
          ELSE /\ analysis_result' =
                     [analysis_result EXCEPT !["sector_heat_map"] =
                         IF industry_flow = "nocol" THEN "nocol" ELSE "value"]
               /\ pc' = "analyze_market_stage"
               /\ UNCHANGED raised_in
    /\ UNCHANGED cache_vars
    /\ UNCHANGED aux_vars
    /\ UNCHANGED <<run_mode, data, stock_to_industry_map, report>>

\* re.findall finds no number in 'nan亿元', and [0] raises inside the try block
analyze_market_stage ==
    TriedMetric("analyze_market_stage", analysis_result["liquidity"] # "nan", "value",
                "comprehensive_scoring")

\* analysis_result['etf_technical'] is never assigned (the call of analyze_etf_technical
\* is commented out), so comprehensive_scoring returns at its first test
comprehensive_scoring ==
    /\ pc = "comprehensive_scoring"
    /\ pc' = "analyze_conclusion"
    /\ UNCHANGED cache_vars
    /\ UNCHANGED aux_vars
    /\ UNCHANGED <<run_mode, data, stock_to_industry_map, analysis_result, report, raised_in>>

\* what the request of chat_volces can meet
ChatOutcomes == {"content", "timeout", "http_error", "malformed"}

\* chat_volces(system, user): the content of the reply, or str(e) of the exception
chat_volces(o) == IF o = "content" THEN "content" ELSE "str(" \o o \o ")"

\* the fixed text 'AI分析模块出现异常，请检查日志。' that analyze_conclusion stores when
\* its try block raises
FallbackConclusion == "AI module failed, see the log"

\* analyze_conclusion(): AI_TOOL_AVAILABLE is fixed when the module is imported and is
\* read once, here; heat_map.head(5)['板块名称'] raises inside the try block on a heat
\* map without that column
analyze_conclusion ==
    /\ pc = "analyze_conclusion"
    /\ \E AI_TOOL_AVAILABLE \in BOOLEAN, o \in ChatOutcomes :
          LET prompt_raises == analysis_result["sector_heat_map"] = "nocol"
              conclusion_raw ==
                  IF ~AI_TOOL_AVAILABLE THEN "{}"
                  ELSE IF prompt_raises THEN FallbackConclusion
                  ELSE chat_volces(o)
          IN /\ analysis_result' =
                   [analysis_result EXCEPT !["conclusion_raw"] = conclusion_raw]
             /\ raised_in' =
                   IF ~AI_TOOL_AVAILABLE THEN raised_in
                   ELSE IF prompt_raises THEN raised_in \cup {"analyze_conclusion"}
                   ELSE IF o # "content" THEN raised_in \cup {"chat_volces"}
                   ELSE raised_in
    /\ pc' = "print_report"
    /\ UNCHANGED cache_vars
    /\ UNCHANGED aux_vars
    /\ UNCHANGED <<run_mode, data, stock_to_industry_map, report>>

\* the sections print_report renders from self.analysis_result
SectionsOf(result) ==
    {"title", "conclusion", "macro", "sentiment", "disclaimer"}
        \cup (IF result["market_stage"] \notin {"unset", "empty"} THEN {"market_stage"} ELSE {})
        \cup (IF result["sector_heat_map"] \notin {"unset", "empty"} THEN {"heat_map"} ELSE {})
        \cup (IF result["final_ranking"] \notin {"unset", "empty"} THEN {"final_ranking"} ELSE {})

\* what writing reports/index.html can meet: the first write is outside any try block,
\* the second one is inside one
WriteOutcomes == {"ok", "first_write_fails", "second_write_fails"}

\* print_report(): row['板块名称'] raises on a heat map without that column
print_report ==
    /\ pc = "print_report"
    /\ \E w \in WriteOutcomes :
          IF analysis_result["sector_heat_map"] = "nocol" \/ w = "first_write_fails"
          THEN /\ pc' = "crashed"
               /\ report' = [report EXCEPT !.entered = TRUE]
          ELSE /\ pc' = "done"
               /\ report' = [entered |-> TRUE, written |-> TRUE,
                             sections |-> SectionsOf(analysis_result)]
    /\ UNCHANGED cache_vars
    /\ UNCHANGED aux_vars
    /\ UNCHANGED <<run_mode, data, stock_to_industry_map, analysis_result, raised_in>>

RunInit ==
    /\ program = "a_share_insight"
    /\ now = 0
    /\ dir_exists = TRUE
    /\ disk = [f \in SeedFiles |-> StaleTable]
    /\ _cache = << >>
    /\ pkl_disk = << >>
    /\ tx_good = << >>
    /\ produced = << >>
    /\ last = NoCall
    /\ AnalyzerInit
    /\ AuxInit

RunNext ==
    \/ run_analysis
    \/ fetch_data
    \/ analyze_market_liquidity
    \/ analyze_market_turnover
    \/ analyze_margin_trading
    \/ analyze_intermarket_relationship
    \/ analyze_market_sentiment
    \/ analyze_sector_strength
    \/ analyze_market_stage
    \/ comprehensive_scoring
    \/ analyze_conclusion
    \/ print_report

SpecRun == RunInit /\ [][RunNext]_vars

-----------------------------------------------------------------------------
(* The data source adapters of a_share_insight_v2.py.  A provider answers one *)
(* requests.get(...).json() with a network error, with JSON of an unexpected  *)
(* shape, with the expected shape and nothing in it, or with a payload.       *)

\* amounts are divided by 1e8
Yi == 100000000

\* the length of the prefix of etf_list that get_etf_tech goes through
MaxEtf == 2

FailureKinds == {"network_error", "bad_shape", "empty"}
Responses(payloads) ==
    {[kind |-> k, payload |-> << >>] : k \in FailureKinds}
        \cup {[kind |-> "ok", payload |-> p] : p \in payloads}

\* a try body that ran through with value v after the requests made, or that raised
Returned(v, made) == [raised |-> FALSE, failed |-> FALSE, value |-> v, attempts |-> made]
Raised(made) == [raised |-> TRUE, failed |-> TRUE, value |-> << >>, attempts |-> made]

\* try: body / except Exception: return default
ExceptPropagates(body, default) == body
ExceptReturns(body, default) ==
    IF body.raised THEN [body EXCEPT !.raised = FALSE, !.value = default] ELSE body

\* what of a call is observed: the adapter, what its try body did, what it returned
AdapterCall(op, outcome) ==
    [op |-> op, raised |-> outcome.raised, failed |-> outcome.failed,
     value |-> outcome.value, attempts |-> outcome.attempts]

\* the adapters other than get_index_tx leave every variable but the observation alone
AdapterFrame ==
    /\ program = "a_share_insight_v2"
    /\ UNCHANGED <<cache_vars, run_vars, etf_vars, file_vars, fn_vars>>

\* get_market_activity_tx(): int('') raises on an empty figure
ActivityPayloads == {[up |-> u, down |-> d] : u \in {0, 3}, d \in {0, 2}}
get_market_activity_tx(r) ==
    LET body == IF r.kind = "ok" THEN Returned(<<r.payload.up, r.payload.down>>, <<1>>)
                ELSE Raised(<<1>>)
    IN /\ call' = AdapterCall("get_market_activity_tx", ExceptReturns(body, <<0, 0>>))
       /\ AdapterFrame

\* get_sector_tx(): the columns n and zd of the first 10 boards, renamed name and zd;
\* selecting the two columns of a frame made of no rows raises
EmptySectorFrame == [columns |-> <<"name", "zd">>, rows |-> << >>]
Boards(n) == [i \in 1..n |-> [n |-> i, zd |-> 0, c |-> 0]]
SectorPayloads == {Boards(1), Boards(11)}
head(rows, n) == SubSeq(rows, 1, IF Len(rows) < n THEN Len(rows) ELSE n)
get_sector_tx(r) ==
    LET bk == head([i \in 1..Len(r.payload) |->
                       [name |-> r.payload[i].n, zd |-> r.payload[i].zd]], 10)
        body == IF r.kind = "ok"
                THEN Returned([columns |-> <<"name", "zd">>, rows |-> bk], <<1>>)
                ELSE Raised(<<1>>)
    IN /\ call' = AdapterCall("get_sector_tx", ExceptReturns(body, EmptySectorFrame))
       /\ AdapterFrame

\* get_margin_sina(): two requests, the second one only when the first one answered;
\* the figures are read after both
MarginPayloads == {[balance |-> b * Yi, change |-> c * Yi] : b \in {1, 2}, c \in {-1, 1}}
get_margin_sina(sh, sz) ==
    LET body ==
            IF sh.kind = "network_error" THEN Raised(<<1>>)
            ELSE IF sz.kind = "network_error" THEN Raised(<<1, 1>>)
            ELSE IF sh.kind # "ok" \/ sz.kind # "ok" THEN Raised(<<1, 1>>)
            ELSE Returned(<<(sh.payload.balance + sz.payload.balance) \div Yi,
                            (sh.payload.change + sz.payload.change) \div Yi>>, <<1, 1>>)
    IN /\ call' = AdapterCall("get_margin_sina", ExceptReturns(body, <<0, 0>>))
       /\ AdapterFrame

\* get_north_money_em()
NorthPayloads == {0, 3 * Yi, -2 * Yi}
get_north_money_em(r) ==
    LET body == IF r.kind = "ok" THEN Returned(r.payload \div Yi, <<1>>) ELSE Raised(<<1>>)
    IN /\ call' = AdapterCall("get_north_money_em", ExceptReturns(body, 0))
       /\ AdapterFrame

\* the first entries of etf_list, of which get_etf_tech goes through MaxEtf
etf_list ==
    << [code |-> "510300", name |-> "CSI 300 ETF"], [code |-> "510500", name |-> "CSI 500 ETF"],
       [code |-> "512880", name |-> "securities ETF"], [code |-> "512480", name |-> "semiconductor ETF"] >>

\* a day kline by what get_etf_tech reads of it: the number of rows, the last close, the
\* mean of the last 5 closes and the mean of the last 20
KlinePayloads ==
    {[rows |-> 20, close |-> 1, ma5 |-> 1, ma20 |-> 1]}
        \cup {[rows |-> 21, close |-> c, ma5 |-> a, ma20 |-> b] : c, a, b \in {1, 2}}

\* the score of get_etf_tech, in tenths
score(close, ma5, ma20) ==
    IF close > ma20 /\ ma5 > ma20 THEN (IF close > ma5 THEN 45 ELSE 35)
    ELSE IF close < ma20 THEN 20
    ELSE 50

\* the record get_etf_tech appends for an entry of etf_list that met response r
EtfDefault(etf) == [code |-> etf.code, name |-> etf.name, close |-> 0, score |-> 20]
EtfRecord(etf, r) ==
    LET k == r.payload
        body == IF r.kind # "ok" \/ k.rows < 21 THEN Raised(<<1>>)
                ELSE Returned([code |-> etf.code, name |-> etf.name, close |-> k.close,
                               score |-> score(k.close, k.ma5, k.ma20)], <<1>>)
    IN ExceptReturns(body, EtfDefault(etf))

\* the orders sort_values('score', ascending=False) can give the records: the order of
\* records of equal score is not fixed
sort_values_score_desc(records) ==
    LET n == Len(records)
        perms == {q \in [1..n -> 1..n] : \A i, j \in 1..n : q[i] = q[j] => i = j}
    IN {[i \in 1..n |-> records[q[i]]] : q \in
           {q \in perms : \A i \in 1..(n - 1) : records[q[i]].score >= records[q[i + 1]].score}}

\* get_etf_tech(), the entries of etf_list meeting the responses rs
get_etf_tech(rs) ==
    LET made == [i \in 1..MaxEtf |-> EtfRecord(etf_list[i], rs[i])]
        records == [i \in 1..MaxEtf |-> made[i].value]
    IN /\ \E sorted \in sort_values_score_desc(records) :
             call' = [op |-> "get_etf_tech",
                      raised |-> \E i \in 1..MaxEtf : made[i].raised,
                      failed |-> {i \in 1..MaxEtf : made[i].failed},
                      value |-> sorted,
                      attempts |-> [i \in 1..MaxEtf |-> made[i].attempts[1]]]
       /\ AdapterFrame

AdaptersInit ==
    /\ program = "a_share_insight_v2"
    /\ now = 0
    /\ dir_exists = TRUE
    /\ disk = << >>
    /\ _cache = << >>
    /\ \E S \in {{}, TxSeedFiles} : pkl_disk = [f \in S |-> StaleTable]
    /\ tx_good = << >>
    /\ produced = << >>
    /\ last = NoCall
    /\ AnalyzerInit
    /\ AuxInit

\* how many of its adapter calls analyze() has made, read off the observations
Called ==
    CASE call.op = "get_etf_tech" -> 7
      [] call.op = "get_sector_tx" -> 6
      [] call.op = "get_north_money_em" -> 5
      [] call.op = "get_margin_sina" -> 4
      [] call.op = "get_market_activity_tx" -> 3
      [] OTHER -> IF last.op # "get_index_tx" THEN 0
                  ELSE IF last.arg = <<"s", "h">> THEN 1 ELSE 2

\* analyze() calls the adapters one after the other
AdaptersNext ==
    \/ Called = 0 /\ \E o \in TxOutcomes(now) : get_index_tx(<<"s", "h">>, o)
    \/ Called = 1 /\ \E o \in TxOutcomes(now) : get_index_tx(<<"s", "z">>, o)
    \/ Called = 2 /\ \E r \in Responses(ActivityPayloads) : get_market_activity_tx(r)
    \/ Called = 3 /\ \E sh, sz \in Responses(MarginPayloads) : get_margin_sina(sh, sz)
    \/ Called = 4 /\ \E r \in Responses(NorthPayloads) : get_north_money_em(r)
    \/ Called = 5 /\ \E r \in Responses(SectorPayloads) : get_sector_tx(r)
    \/ Called = 6 /\ \E rs \in [1..MaxEtf -> Responses(KlinePayloads)] : get_etf_tech(rs)

SpecAdapters == AdaptersInit /\ [][AdaptersNext]_vars

-----------------------------------------------------------------------------
(* The per-symbol technical batch: analyze_etf_technical of a_share_insight.py. *)
(* inputs is self.data['etf_spot'], a list of distinct codes; progress_file is  *)
(* the checkpoint of today.                                                     *)

\* the longest etf_spot
MaxSymbols == 3

\* _analyze_single_etf: the entry of a code whose fetch succeeded, None otherwise
NoneResult == [code |-> 0]
_analyze_single_etf(etf_code, ok) == IF ok THEN [code |-> etf_code] ELSE NoneResult

\* the codes of a list of entries
CodesOf(entries) == {entries[i].code : i \in 1..Len(entries)}

\* etfs_to_process: the rows of etf_spot whose code is not in analyzed_codes
etfs_to_process_all(etf_spot, analyzed_codes) == etf_spot
RECURSIVE etfs_to_process(_, _)
etfs_to_process(etf_spot, analyzed_codes) ==
    IF etf_spot = << >> THEN << >>
    ELSE LET rest == etfs_to_process(Tail(etf_spot), analyzed_codes)
         IN IF Head(etf_spot) \in analyzed_codes THEN rest ELSE <<Head(etf_spot)>> \o rest

\* all_etf_analysis after the results of the first j futures were taken: a result that
\* is not None is appended
RECURSIVE Collected(_, _, _, _)
Collected(all_etf_analysis, to_process, ok, j) ==
    IF j = 0 THEN all_etf_analysis
    ELSE LET before == Collected(all_etf_analysis, to_process, ok, j - 1)
             res == _analyze_single_etf(to_process[j], ok[to_process[j]])
         IN IF res # NoneResult THEN Append(before, res) ELSE before

\* analyze_etf_technical(), the fetch of code c succeeding iff ok[c], and the process
\* being killed after the results of the first `taken` futures unless taken is the
\* number of futures.  The checkpoint is written after every result that is not None
analyze_etf_technical(ok, taken) ==
    LET all_etf_analysis == IF progress_file.exists THEN progress_file.content ELSE << >>
        to_process == etfs_to_process(inputs, CodesOf(all_etf_analysis))
        after == Collected(all_etf_analysis, to_process, ok, taken)
    IN /\ program = "a_share_insight"
       /\ taken \in 0..Len(to_process)
       /\ progress_file' = IF after # all_etf_analysis
                           THEN [exists |-> TRUE, content |-> after] ELSE progress_file
       /\ etf_run' = [op |-> "analyze_etf_technical",
                      loaded |-> all_etf_analysis,
                      submitted |-> to_process,
                      fetched_ok |-> \A i \in 1..Len(to_process) : ok[to_process[i]],
                      ended |-> IF taken = Len(to_process) THEN "returned" ELSE "killed",
                      etf_technical |-> IF taken = Len(to_process) THEN after ELSE << >>]
       /\ UNCHANGED <<cache_vars, run_vars, adapter_vars, file_vars, fn_vars>>

\* the lists of distinct codes that etf_spot can be
EtfSpots ==
    {q \in UNION {[1..n -> 1..MaxSymbols] : n \in 1..MaxSymbols} :
        \A i, j \in DOMAIN q : q[i] = q[j] => i = j}

EtfInit ==
    /\ program = "a_share_insight"
    /\ now = 0
    /\ dir_exists = TRUE
    /\ disk = << >>
    /\ _cache = << >>
    /\ pkl_disk = << >>
    /\ tx_good = << >>
    /\ produced = << >>
    /\ last = NoCall
    /\ AnalyzerInit
    /\ call = NoAdapterCall
    /\ progress_file = NoFile
    /\ etf_run = [op |-> "none"]
    /\ file = NoFile
    /\ writer = "idle"
    /\ inputs \in EtfSpots
    /\ ret = << >>

EtfNext ==
    \E ok \in [1..MaxSymbols -> BOOLEAN], taken \in 0..MaxSymbols :
        analyze_etf_technical(ok, taken)

SpecEtf == EtfInit /\ [][EtfNext]_vars

-----------------------------------------------------------------------------
(* The industry map: _fetch_full_industry_map of a_share_insight.py.  inputs  *)
(* is what the provider answers: whether the listing of the boards succeeds,  *)
(* and per board whether its constituent fetch succeeds and with which codes. *)

\* the number of boards and of stock codes
MaxIndustries == 2
MaxCodes == 2

\* the codes a constituent fetch can return, in order
ConstituentLists ==
    {q \in UNION {[1..n -> 1..MaxCodes] : n \in 0..MaxCodes} :
        \A i, j \in DOMAIN q : q[i] = q[j] => i = j}

\* for code in cons_df['代码']: full_map[code] = industry_name
RECURSIVE Assigned(_, _, _)
Assigned(full_map, codes, industry_name) ==
    IF codes = << >> THEN full_map
    ELSE Assigned(Put(full_map, Head(codes), industry_name), Tail(codes), industry_name)

\* one turn of the loop: the constituents are entered, or the exception of the fetch is
\* swallowed and the loop continues
TurnDiscards(full_map, industry_name, fetch) ==
    IF fetch.ok THEN Assigned(full_map, fetch.codes, industry_name) ELSE << >>
Turn(full_map, industry_name, fetch) ==
    IF fetch.ok THEN Assigned(full_map, fetch.codes, industry_name) ELSE full_map

\* full_map after the boards from industry_name on
RECURSIVE Looped(_, _, _)
Looped(full_map, industry_name, fetches) ==
    IF industry_name > Len(fetches) THEN full_map
    ELSE Looped(Turn(full_map, industry_name, fetches[industry_name]),
                industry_name + 1, fetches)

\* _fetch_full_industry_map(): the listing is fetched outside any try block
_fetch_full_industry_map ==
    /\ program = "a_share_insight"
    /\ ret' = IF inputs.listing_ok
              THEN [op |-> "_fetch_full_industry_map", raised |-> FALSE,
                    full_map |-> Looped(<< >>, 1, inputs.fetches)]
              ELSE [op |-> "_fetch_full_industry_map", raised |-> TRUE, full_map |-> << >>]
    /\ UNCHANGED <<cache_vars, run_vars, adapter_vars, etf_vars, file_vars, inputs>>

\* the variables other than inputs before anything ran in the process of a_share_insight.py
IdleInit ==
    /\ program = "a_share_insight"
    /\ now = 0
    /\ dir_exists = TRUE
    /\ disk = << >>
    /\ _cache = << >>
    /\ pkl_disk = << >>
    /\ tx_good = << >>
    /\ produced = << >>
    /\ last = NoCall
    /\ AnalyzerInit
    /\ call = NoAdapterCall
    /\ progress_file = NoFile
    /\ etf_run = [op |-> "none"]
    /\ file = NoFile
    /\ writer = "idle"
    /\ ret = << >>

IndustryInit ==
    /\ IdleInit
    /\ inputs \in [listing_ok : BOOLEAN,
                   fetches : [1..MaxIndustries -> [ok : BOOLEAN, codes : ConstituentLists]]]

IndustryNext == _fetch_full_industry_map

SpecIndustry == IndustryInit /\ [][IndustryNext]_vars

-----------------------------------------------------------------------------
(* Writing and reading one cache file: `with open(filepath, 'wb') as f:       *)
(* pickle.dump(data, f)` of cache_data, get_incremental_daily_data and         *)
(* analyze_etf_technical, and `pickle.load(f)` of their readers.  The writer   *)
(* is one process, the reader another run or the same program restarted.       *)

\* the longest Table written
MaxRows == 3

\* the Tables written: rows "1" to "n"
WrittenTables == {[i \in 1..n |-> DigitChar(i)] : n \in 1..MaxRows}

\* pickle.dumps(data): a header, the rows, the STOP opcode
pickle_dumps(table) == <<"PROTO">> \o table \o <<"STOP">>

\* pickle.load of the bytes found: the Table whose pickle they are, or an exception
pickle_load(bytes) ==
    IF \E t \in WrittenTables : pickle_dumps(t) = bytes
    THEN [raised |-> FALSE, data |-> CHOOSE t \in WrittenTables : pickle_dumps(t) = bytes]
    ELSE [raised |-> TRUE, data |-> << >>]

FileFrame == UNCHANGED <<cache_vars, run_vars, adapter_vars, etf_vars>>

\* open(filepath, 'wb'): the file exists from now on and is empty
open_wb(table) ==
    /\ writer = "idle"
    /\ writer' = "writing"
    /\ inputs' = table
    /\ file' = [exists |-> TRUE, bytes |-> << >>]
    /\ UNCHANGED ret
    /\ FileFrame

\* pickle.dump(data, f): bytes reach the file in order, some at a time
pickle_dump ==
    /\ writer = "writing"
    /\ \E n \in (Len(file.bytes) + 1)..Len(pickle_dumps(inputs)) :
          file' = [file EXCEPT !.bytes = SubSeq(pickle_dumps(inputs), 1, n)]
    /\ UNCHANGED <<writer, inputs, ret>>
    /\ FileFrame

\* the end of the with block, after the pickle was written
close ==
    /\ writer = "writing"
    /\ file.bytes = pickle_dumps(inputs)
    /\ writer' = "idle"
    /\ inputs' = << >>
    /\ UNCHANGED <<file, ret>>
    /\ FileFrame

\* the writing process is killed; the program can be started again
Killed ==
    /\ writer = "writing"
    /\ writer' = "idle"
    /\ inputs' = << >>
    /\ UNCHANGED <<file, ret>>
    /\ FileFrame

\* a reader: if os.path.exists(filepath): pickle.load(f)
read ==
    /\ file.exists
    /\ ret' = pickle_load(file.bytes)
    /\ UNCHANGED <<file, writer, inputs>>
    /\ FileFrame

FileInit ==
    /\ IdleInit
    /\ inputs = << >>

FileNext ==
    \/ \E t \in WrittenTables : open_wb(t)
    \/ pickle_dump
    \/ close
    \/ Killed
    \/ read

SpecFile == FileInit /\ [][FileNext]_vars

-----------------------------------------------------------------------------
(* The sentiment indicator: the computation of analyze_market_sentiment of     *)
(* a_share_insight.py (and of analyze of a_share_insight_v2.py for the profit   *)
(* effect).  inputs holds the up and down counts, the length of rank_ljqs and  *)
(* the congestion, the product at line 412, in tenths of a percent.  The       *)
(* profit effect is kept in hundredths of a percent, which is what round(x, 2) *)
(* leaves.                                                                      *)

\* the counts are 0..MaxCount and the hundreds 0..100 * MaxCount
MaxCount == 6

\* round(n / d, 0) for n >= 0 and d > 0: the nearest integer, the even one of two
round_half_even(n, d) ==
    LET q == n \div d
        r == n % d
    IN IF 2 * r > d \/ (2 * r = d /\ q % 2 = 1) THEN q + 1 ELSE q

\* profit_effect, in hundredths of a percent:
\* round((up / (up + down)) * 100, 2) if (up + down) > 0 else 50.0
profit_effect_unguarded(up_count, down_count) ==
    IF up_count + down_count > 0
    THEN round_half_even(up_count * 10000, up_count + down_count) ELSE -1
profit_effect(up_count, down_count) ==
    IF up_count + down_count > 0
    THEN round_half_even(up_count * 10000, up_count + down_count) ELSE 5000

\* the label and the first reason of analyze_market_sentiment; "neutral" stands for
\* 中性, "greedy" for 贪婪, "optimistic" for 乐观, "neutral_cool" for 中性偏冷, "panic"
\* for 恐慌
sentiment_of(profit, zt_count) ==
    IF profit > 6500 /\ zt_count > 80 THEN <<"greedy", <<"profit_strong">> >>
    ELSE IF profit > 5000 THEN <<"optimistic", <<"profit_good">> >>
    ELSE IF 4000 <= profit /\ profit <= 5000 THEN <<"neutral_cool", <<"profit_fair">> >>
    ELSE IF profit < 4000 THEN <<"panic", <<"profit_poor">> >>
    ELSE <<"neutral", << >> >>

\* the reason appended for the congestion, in tenths of a percent: above 90% or below 20%
congestion_reason_never(congestion) == << >>
congestion_reason(congestion) ==
    IF congestion > 900 THEN <<"congestion_high">>
    ELSE IF congestion < 200 THEN <<"congestion_low">>
    ELSE << >>

\* the sentiment entry that analyze_market_sentiment computes from inputs
analyze_market_sentiment_of(in) ==
    LET profit == profit_effect(in.up_count, in.down_count)
        labelled == sentiment_of(profit, in.zt_count)
    IN [profit_effect |-> profit,
        sentiment |-> labelled[1],
        sentiment_reason |-> labelled[2] \o congestion_reason(in.congestion)]

compute_sentiment ==
    /\ ret' = analyze_market_sentiment_of(inputs)
    /\ UNCHANGED <<cache_vars, run_vars, adapter_vars, etf_vars, file_vars, inputs>>

Counts == (0..MaxCount) \cup {100 * u : u \in 0..MaxCount}

SentimentInit ==
    /\ IdleInit
    /\ inputs \in [up_count : Counts, down_count : Counts, zt_count : {80, 81},
                   congestion : {199, 200, 900, 901, 950}]

SentimentNext == compute_sentiment

SpecSentiment == SentimentInit /\ [][SentimentNext]_vars

-----------------------------------------------------------------------------
(* The liquidity indicator: run_analysis chooses the run mode from the clock,   *)
(* and analyze_market_liquidity, from its line 262 on (the three tables have    *)
(* passed the test of lines 259-260 and hold the rows it reads), computes the   *)
(* turnover it classifies.  inputs holds the amounts of the last two rows of    *)
(* each index, already divided by 1e8, and the clock of run_analysis: the       *)
(* minute of the day and the weekday.  A turnover is a fraction num / den,      *)
(* since the estimate of the full day is not a whole number.                    *)

\* the amounts of one index are 0, 1000, ..., 1000 * MaxAmount
MaxAmount == 13
\* analyze_market_liquidity reads the clock up to MaxDelay minutes after run_analysis
MaxDelay == 1

AVG_TURNOVER == 10000

\* now.time() of a clock read `minute` minutes into the day
time_of_day(minute) == minute % 1440

\* _get_elapsed_trading_minutes, the clock being at minute t of the day
\* (09:30 is 570, 11:30 is 690, 13:00 is 780, 15:00 is 900)
elapsed_through_lunch(t) ==
    IF t < 570 THEN 0
    ELSE IF t <= 900 THEN t - 570
    ELSE 240
_get_elapsed_trading_minutes(t) ==
    IF t < 570 THEN 0
    ELSE IF t <= 690 THEN t - 570
    ELSE IF t < 780 THEN 120
    ELSE IF t <= 900 THEN 120 + (t - 780)
    ELSE 240

\* volume_analysis_turnover and whether it is an estimate: lines 264-275
estimate_unguarded(mode, elapsed_minutes, total_turnover) ==
    IF mode # "POST_MARKET"
    THEN [num |-> total_turnover * 240, den |-> elapsed_minutes, estimated |-> TRUE]
    ELSE [num |-> total_turnover, den |-> 1, estimated |-> FALSE]
estimate(mode, elapsed_minutes, total_turnover) ==
    IF mode # "POST_MARKET" /\ elapsed_minutes > 0
    THEN [num |-> total_turnover * 240, den |-> elapsed_minutes, estimated |-> TRUE]
    ELSE [num |-> total_turnover, den |-> 1, estimated |-> FALSE]

\* volume_change_desc, lines 283-284: "shrink" stands for 缩量, "expand" for 放量
volume_change_desc(v, yesterday_turnover) ==
    LET volume_change == v.num - yesterday_turnover * v.den
    IN IF volume_change < 0
       THEN [estimated |-> v.estimated, direction |-> "shrink",
             num |-> 0 - volume_change, den |-> v.den]
       ELSE [estimated |-> v.estimated, direction |-> "expand",
             num |-> volume_change, den |-> v.den]

\* volume_qualitative_level, lines 286-290: "low" stands for 地量水平, "normal" for
\* 平量水平, "high" for 天量水平, "huge" for 巨量水平
volume_qualitative_level_two_bands(v) ==
    IF v.num * 10 < AVG_TURNOVER * 7 * v.den THEN "low" ELSE "normal"
volume_qualitative_level(v) ==
    IF v.num * 10 < AVG_TURNOVER * 7 * v.den THEN "low"
    ELSE IF v.num * 10 <= AVG_TURNOVER * 15 * v.den THEN "normal"
    ELSE IF v.num * 10 <= AVG_TURNOVER * 25 * v.den THEN "high"
    ELSE "huge"

\* run_analysis, lines 794-798: the run mode of the clock in inputs
select_run_mode ==
    /\ pc = "run_analysis"
    /\ run_mode' = RunModeOf(inputs.minute \div 60, inputs.weekday)
    /\ pc' = "analyze_market_liquidity"
    /\ UNCHANGED <<data, stock_to_industry_map, analysis_result, report, raised_in>>
    /\ UNCHANGED <<cache_vars, adapter_vars, etf_vars, file_vars, fn_vars>>

\* analyze_market_liquidity, lines 262-291; volume_level and inflow_percentage, which
\* take the five rows before the last and the fund flow, are not part of ret
compute_liquidity ==
    /\ pc = "analyze_market_liquidity"
    /\ \E delay \in 0..MaxDelay :
          LET total_turnover == inputs.sh_today + inputs.sz_today
              yesterday_turnover == inputs.sh_yesterday + inputs.sz_yesterday
              clock == time_of_day(inputs.minute + delay)
              elapsed_minutes == _get_elapsed_trading_minutes(clock)
              v == estimate(run_mode, elapsed_minutes, total_turnover)
          IN ret' = [total_turnover |-> total_turnover,
                     yesterday_turnover |-> yesterday_turnover,
                     clock |-> clock,
                     volume_analysis_turnover |-> v,
                     volume_change_desc |-> volume_change_desc(v, yesterday_turnover),
                     volume_qualitative_level |-> volume_qualitative_level(v)]
    /\ pc' = "done"
    /\ UNCHANGED <<run_mode, data, stock_to_industry_map, analysis_result, report, raised_in>>
    /\ UNCHANGED <<cache_vars, adapter_vars, etf_vars, file_vars, inputs>>

Amounts == {1000 * k : k \in 0..MaxAmount}

\* Monday 10:30, Monday 16:00 and Saturday 10:30
LiquidityClocks == {<<630, 0>>, <<960, 0>>, <<630, 5>>}

LiquidityInit ==
    /\ IdleInit
    /\ \E c \in LiquidityClocks :
          inputs \in [sh_today : Amounts, sz_today : Amounts,
                      sh_yesterday : Amounts, sz_yesterday : Amounts,
                      minute : {c[1]}, weekday : {c[2]}]

LiquidityNext ==
    \/ select_run_mode
    \/ compute_liquidity

SpecLiquidity == LiquidityInit /\ [][LiquidityNext]_vars

\* every minute of every day of the week, and three pairs of turnovers
ElapsedInit ==
    /\ IdleInit
    /\ inputs \in [sh_today : {0, 1000, 6000}, sz_today : {0, 6000},
                   sh_yesterday : {4000}, sz_yesterday : {5000},
                   minute : 0..1439, weekday : 0..6]

SpecElapsed == ElapsedInit /\ [][LiquidityNext]_vars

-----------------------------------------------------------------------------
(* The leverage indicator: analyze_margin_trading of a_share_insight.py from   *)
(* its line 332 on.  inputs holds the sum of the two latest balances, the sum   *)
(* of the two previous ones and the sum of the 流通市值 column.  A ratio is a    *)
(* fraction num / den with the rounding of the double that holds it: err is -1 *)
(* when the double lies below the fraction, 0 when the comparisons of lines     *)
(* 350-357 see the fraction itself.                                             *)

\* the balances are 0..MaxBalance
MaxBalance == 26

\* the double (total_margin_balance / total_circulating_market_cap) * 100: the quotients
\* 0.018 and 0.022 times 100 are the doubles 1.7999999999999998 and 2.1999999999999997,
\* below the doubles 1.8 and 2.2; 0.025 times 100 is the double 2.5
leverage_ratio(total_margin_balance, total_circulating_market_cap) ==
    IF total_circulating_market_cap > 0
    THEN LET num == total_margin_balance * 100
             den == total_circulating_market_cap
         IN [num |-> num, den |-> den,
             err |-> IF num * 10 = 18 * den \/ num * 10 = 22 * den THEN -1 ELSE 0]
    ELSE [num |-> 0, den |-> 1, err |-> 0]

\* ratio < tenths / 10, as doubles
RatioBelow(ratio, tenths) ==
    \/ ratio.num * 10 < tenths * ratio.den
    \/ ratio.num * 10 = tenths * ratio.den /\ ratio.err < 0

\* leverage_level, lines 350-357: "low" stands for 较低, "medium" for 中等, "elevated"
\* for 偏高, "risk_zone" for 风险区
leverage_level(ratio) ==
    IF RatioBelow(ratio, 18) THEN "low"
    ELSE IF ~RatioBelow(ratio, 18) /\ RatioBelow(ratio, 22) THEN "medium"
    ELSE IF ~RatioBelow(ratio, 22) /\ RatioBelow(ratio, 25) THEN "elevated"
    ELSE "risk_zone"

\* change_desc, lines 340-341: "net_buy" stands for 净买入, "net_repay" for 净偿还
change_desc(total_margin_balance, prev_total_margin_balance) ==
    LET change == total_margin_balance - prev_total_margin_balance
    IN IF change > 0 THEN [direction |-> "net_buy", amount |-> change]
       ELSE [direction |-> "net_repay", amount |-> 0 - change]

compute_leverage ==
    /\ ret = << >>
    /\ ret' = [total_balance |-> inputs.total_margin_balance,
               change_desc |-> change_desc(inputs.total_margin_balance,
                                           inputs.prev_total_margin_balance),
               leverage_ratio |-> leverage_ratio(inputs.total_margin_balance,
                                                 inputs.total_circulating_market_cap),
               leverage_level |->
                   leverage_level(leverage_ratio(inputs.total_margin_balance,
                                                 inputs.total_circulating_market_cap))]
    /\ UNCHANGED <<cache_vars, run_vars, adapter_vars, etf_vars, file_vars, inputs>>

LeverageInit ==
    /\ IdleInit
    /\ inputs \in [total_margin_balance : 0..MaxBalance,
                   prev_total_margin_balance : {0, MaxBalance},
                   total_circulating_market_cap : {0, 500, 1000}]

LeverageNext == compute_leverage

SpecLeverage == LeverageInit /\ [][LeverageNext]_vars

-----------------------------------------------------------------------------
(* The market stage: analyze_margin_trading up to its test of lines 325-329,   *)
(* then analyze_market_stage, of a_share_insight.py.  inputs holds the three   *)
(* tables of the leverage indicator, by kind, and the two indicators that      *)
(* analyze_market_stage reads: intermarket as its position_desc, liquidity as   *)
(* its volume_qualitative_level and the figure of its main_net_inflow, each     *)
(* "empty" when the indicator is {}.  ret holds analysis_result['margin_trading'] *)
(* and the stage_description of analysis_result['market_stage'].                *)

\* position_desc of the intermarket indicator: 高位区域, 低位区域, 震荡中枢
Positions == {"high_zone", "low_zone", "middle"}

\* main_net_inflow of the liquidity indicator: a figure below -50, the figure -50, a
\* figure above -50, or 'nan亿元', in which the pattern of line 542 finds no number
Inflows == {"below_minus_50", "minus_50", "above_minus_50", "nan"}

\* the liquidity indicator: {} or its level and its inflow
EmptyLiquidity ==
    [computed |-> FALSE, volume_qualitative_level |-> "unset", main_net_inflow |-> "unset"]
Liquidities ==
    {EmptyLiquidity} \cup [computed : {TRUE},
                           volume_qualitative_level : {"low", "normal", "high", "huge"},
                           main_net_inflow : Inflows]

\* analysis_result.get(...).get(..., default) of lines 539-541
position_desc_of(intermarket) == IF intermarket = "empty" THEN "unknown" ELSE intermarket
volume_level_of(liquidity) ==
    IF ~liquidity.computed THEN "unknown" ELSE liquidity.volume_qualitative_level
main_inflow_str_of(liquidity) ==
    IF ~liquidity.computed THEN "above_minus_50" ELSE liquidity.main_net_inflow

\* stage_desc, lines 543-558.  "unclear" stands for 市场阶段特征不明显。, "late_uptrend"
\* for 上涨趋势末期, "mid_bull" for 牛市中期, "high_range" for 高位震荡, "bottoming" for
\* 熊市末期或牛市初期, "low_rebound" for 低位反弹, "consolidation" for 震荡整固
\* the value "unclear" of line 543 is replaced on each of the six branches
stage_desc(position_desc, volume_level, main_inflow) ==
    IF position_desc = "high_zone"
    THEN IF volume_level \in {"high", "huge"}
         THEN IF main_inflow = "below_minus_50" THEN "late_uptrend" ELSE "mid_bull"
         ELSE "high_range"
    ELSE IF position_desc = "low_zone"
    THEN IF volume_level = "low" THEN "bottoming" ELSE "low_rebound"
    ELSE "consolidation"

\* analyze_margin_trading: {} when one of the three tables is None or empty
margin_trading_step ==
    /\ ret = << >>
    /\ ret' = [margin_trading |->
                  IF \E n \in {"sh_margin", "sz_margin", "all_a_spot"} :
                        inputs[n] \in {"absent", "empty"}
                  THEN "empty" ELSE "value",
               market_stage |-> "unset"]
    /\ UNCHANGED <<cache_vars, run_vars, adapter_vars, etf_vars, file_vars, inputs>>

\* analyze_market_stage: {} when float(re.findall(...)[0]) raises
market_stage_step ==
    /\ ret # << >>
    /\ ret.market_stage = "unset"
    /\ ret' = [ret EXCEPT !.market_stage =
                  IF main_inflow_str_of(inputs.liquidity) = "nan" THEN "empty"
                  ELSE stage_desc(position_desc_of(inputs.intermarket),
                                  volume_level_of(inputs.liquidity),
                                  main_inflow_str_of(inputs.liquidity))]
    /\ UNCHANGED <<cache_vars, run_vars, adapter_vars, etf_vars, file_vars, inputs>>

StageInit ==
    /\ IdleInit
    /\ inputs \in [sh_margin : {"ok", "empty"}, sz_margin : {"ok", "empty"},
                   all_a_spot : {"ok", "empty"},
                   intermarket : Positions \cup {"empty"},
                   liquidity : Liquidities]

StageNext ==
    \/ margin_trading_step
    \/ market_stage_step

SpecStage == StageInit /\ [][StageNext]_vars

-----------------------------------------------------------------------------
(* The sector heat map: analyze_sector_strength of a_share_insight.py from its *)
(* line 445 on, the table being non-empty.  inputs holds the rows of            *)
(* industry_flow after the merge: the 量价齐升家数 and the 主力净流入 of each      *)
(* sector, and whether the table has the column 主力净流入 at all.  A rank is    *)
(* kept as twice the average rank of pandas, a whole number; the percentile of  *)
(* a rank r2 among n rows is r2 * 100 / (2 * n).  A heat is in hundredths.      *)

\* 1..MaxSectors sectors, each with 0..MaxRising rising stocks
MaxSectors == 3
MaxRising == 2

\* Series.rank(pct=True) * 100, as twice the average rank of row i: the rows of a
\* smaller value come first, the rows of an equal value share the mean of their places
rank2(values, i) ==
    LET n == Len(values)
        less == Cardinality({j \in 1..n : values[j] < values[i]})
        equal == Cardinality({j \in 1..n : values[j] = values[i]})
    IN 2 * less + equal + 1

\* (0.7 * 人气强度分 + 0.3 * 资金强度分).round(2), in hundredths, of the ranks c2 and i2
\* among n rows; i2 is 0 when 资金强度分 is the constant 0 of line 444
heat_unweighted(c2, i2, n) == round_half_even((5 * c2 + 5 * i2) * 500, n)
heat(c2, i2, n) == round_half_even((7 * c2 + 3 * i2) * 500, n)

\* the rows with their two strength scores and their heat: lines 444-447
Scored(rows, has_inflow) ==
    LET n == Len(rows)
        counts == [i \in 1..n |-> rows[i].count]
        inflows == [i \in 1..n |-> rows[i].inflow]
    IN [i \in 1..n |->
          LET c2 == rank2(counts, i)
              i2 == IF has_inflow THEN rank2(inflows, i) ELSE 0
          IN [name |-> i, count |-> rows[i].count, inflow |-> rows[i].inflow,
              count_rank2 |-> c2, inflow_rank2 |-> i2, heat |-> heat(c2, i2, n)]]

\* the orders sort_values(by='热力值', ascending=False) can give: the order of rows of
\* equal heat is not fixed
sort_values_heat_any(records) ==
    LET n == Len(records)
        perms == {q \in [1..n -> 1..n] : \A i, j \in 1..n : q[i] = q[j] => i = j}
    IN {[i \in 1..n |-> records[q[i]]] : q \in perms}
sort_values_heat_desc(records) ==
    LET n == Len(records)
        perms == {q \in [1..n -> 1..n] : \A i, j \in 1..n : q[i] = q[j] => i = j}
    IN {[i \in 1..n |-> records[q[i]]] : q \in
           {q \in perms : \A i \in 1..(n - 1) : records[q[i]].heat >= records[q[i + 1]].heat}}

compute_sector_heat ==
    /\ ret = << >>
    /\ ret' \in sort_values_heat_desc(Scored(inputs.rows, inputs.has_inflow))
    /\ UNCHANGED <<cache_vars, run_vars, adapter_vars, etf_vars, file_vars, inputs>>

SectorRows ==
    UNION {[1..n -> [count : 0..MaxRising, inflow : {-1, 0, 1}]] : n \in 1..MaxSectors}

HeatInit ==
    /\ IdleInit
    /\ inputs \in [rows : SectorRows, has_inflow : BOOLEAN]

HeatNext == compute_sector_heat

SpecHeat == HeatInit /\ [][HeatNext]_vars

-----------------------------------------------------------------------------
(* The composite score: comprehensive_scoring of a_share_insight.py past its   *)
(* test of line 499, the list etf_technical and the heat map being non-empty.  *)
(* inputs holds, for each instrument, its base_score in tenths and the 热力值   *)
(* of its sector in hundredths, or the absence of its sector from              *)
(* theme_to_heat.  A score is kept in units of 1/1500, in which                 *)
(* (heat_value - 50) / 15 is a whole number.                                    *)

\* the ranking has 1..MaxRanked instruments
MaxRanked == 2

\* theme_to_heat.get(specific_sector, 50), in hundredths
heat_value_of(etf) == IF etf.in_heat_map THEN etf.heat ELSE 5000

\* np.clip(score, 0, 5), in units of 1/1500
np_clip_upper(a) == IF a > 7500 THEN 7500 ELSE a
np_clip(a) == IF a < 0 THEN 0 ELSE IF a > 7500 THEN 7500 ELSE a

\* final_score of one instrument: lines 503-510
final_score(etf) == np_clip(etf.base_score * 150 + (heat_value_of(etf) - 5000))

\* the orders sort_values(by="最终得分", ascending=False) can give
sort_values_final_desc(records) ==
    LET n == Len(records)
        perms == {q \in [1..n -> 1..n] : \A i, j \in 1..n : q[i] = q[j] => i = j}
    IN {[i \in 1..n |-> records[q[i]]] : q \in
           {q \in perms :
               \A i \in 1..(n - 1) : records[q[i]].final_score >= records[q[i + 1]].final_score}}

compute_final_ranking ==
    /\ ret = << >>
    /\ ret' \in sort_values_final_desc(
                  [i \in 1..Len(inputs) |->
                      [code |-> i, base_score |-> inputs[i].base_score,
                       in_heat_map |-> inputs[i].in_heat_map, heat |-> inputs[i].heat,
                       final_score |-> final_score(inputs[i])]])
    /\ UNCHANGED <<cache_vars, run_vars, adapter_vars, etf_vars, file_vars, inputs>>

\* the base scores of _analyze_single_etf and two far larger magnitudes; the heats of a
\* heat map, two far larger magnitudes, and a sector that the heat map does not list
ScoredEtfs ==
    [base_score : {10, 20, 25, 30, -1000, 1000}, in_heat_map : {TRUE},
     heat : {0, 2000, 5000, 8000, 10000, -100000, 100000}]
    \cup [base_score : {10, 20, 25, 30, -1000, 1000}, in_heat_map : {FALSE}, heat : {0}]

ScoringInit ==
    /\ IdleInit
    /\ inputs \in UNION {[1..n -> ScoredEtfs] : n \in 1..MaxRanked}

ScoringNext == compute_final_ranking

SpecScoring == ScoringInit /\ [][ScoringNext]_vars

-----------------------------------------------------------------------------
(* The theme of an instrument: get_etf_sector_and_theme of a_share_insight.py. *)
(* A string is the sequence of its characters, each character written as its  *)
(* code point: "u6E2F" is 港, "u0041" is A.                                     *)

\* the names have 0..MaxNameLen characters
MaxNameLen == 4

\* AdvancedStockAnalyzer.SECTOR_THEMES
SECTOR_THEMES ==
    { <<"u5927", "u65B0", "u80FD", "u6E90">>,
      <<"u79D1", "u6280", "u002F", "u534A", "u5BFC", "u4F53">>,
      <<"u5927", "u6D88", "u8D39">>,
      <<"u5927", "u519C", "u4E1A">>,
      <<"u533B", "u7597", "u5065", "u5EB7">>,
      <<"u5927", "u91D1", "u878D">>,
      <<"u623F", "u5730", "u4EA7">>,
      <<"u6E2F", "u80A1">>,
      <<"u5468", "u671F", "u002F", "u6750", "u6599">>,
      <<"u9AD8", "u7AEF", "u5236", "u9020">>,
      <<"u4EA4", "u901A", "u8FD0", "u8F93">>,
      <<"u4F20", "u5A92", "u002F", "u6E38", "u620F">>,
      <<"u519B", "u5DE5">>,
      <<"u5176", "u4ED6">> }

\* the keywords of the test of line 531: 恒生, H股, 港股, 中概, 互联网
hk_keywords == <<<<"u6052", "u751F">>, <<"u0048", "u80A1">>, <<"u6E2F", "u80A1">>, <<"u4E2D", "u6982">>, <<"u4E92", "u8054", "u7F51">>>>

\* 港股 and 其他, the sector and theme of the test of line 531 and of line 534
hk_result == <<<<"u6E2F", "u80A1">>, <<"u6E2F", "u80A1">>>>
other_result == <<<<"u5176", "u4ED6">>, <<"u5176", "u4ED6">>>>

\* map_rules, in the order of the dict literal of lines 518-530
map_rules ==
    << [sector |-> <<"u8BC1", "u5238">>, theme |-> <<"u5927", "u91D1", "u878D">>,
        keywords |-> <<<<"u8BC1", "u5238">>, <<"u5238", "u5546">>>>],
       [sector |-> <<"u4FDD", "u9669">>, theme |-> <<"u5927", "u91D1", "u878D">>,
        keywords |-> <<<<"u4FDD", "u9669">>>>],
       [sector |-> <<"u94F6", "u884C">>, theme |-> <<"u5927", "u91D1", "u878D">>,
        keywords |-> <<<<"u94F6", "u884C">>>>],
       [sector |-> <<"u534A", "u5BFC", "u4F53">>, theme |-> <<"u79D1", "u6280", "u002F", "u534A", "u5BFC", "u4F53">>,
        keywords |-> <<<<"u534A", "u5BFC", "u4F53">>, <<"u82AF", "u7247">>>>],
       [sector |-> <<"u8BA1", "u7B97", "u673A">>, theme |-> <<"u79D1", "u6280", "u002F", "u534A", "u5BFC", "u4F53">>,
        keywords |-> <<<<"u8BA1", "u7B97", "u673A">>, <<"u4FE1", "u521B">>, <<"u8F6F", "u4EF6">>, <<"u4E91", "u8BA1", "u7B97">>, <<"u0041", "u0049">>, <<"u4EBA", "u5DE5", "u667A", "u80FD">>>>],
       [sector |-> <<"u6D88", "u8D39", "u7535", "u5B50">>, theme |-> <<"u79D1", "u6280", "u002F", "u534A", "u5BFC", "u4F53">>,
        keywords |-> <<<<"u6D88", "u8D39", "u7535", "u5B50">>>>],
       [sector |-> <<"u901A", "u4FE1", "u8BBE", "u5907">>, theme |-> <<"u79D1", "u6280", "u002F", "u534A", "u5BFC", "u4F53">>,
        keywords |-> <<<<"u0035", "u0047">>, <<"u901A", "u4FE1">>>>],
       [sector |-> <<"u5149", "u5B66", "u5149", "u7535", "u5B50">>, theme |-> <<"u79D1", "u6280", "u002F", "u534A", "u5BFC", "u4F53">>,
        keywords |-> <<<<"u5149", "u5B66">>>>],
       [sector |-> <<"u5149", "u4F0F", "u8BBE", "u5907">>, theme |-> <<"u5927", "u65B0", "u80FD", "u6E90">>,
        keywords |-> <<<<"u5149", "u4F0F">>>>],
       [sector |-> <<"u7535", "u6C60">>, theme |-> <<"u5927", "u65B0", "u80FD", "u6E90">>,
        keywords |-> <<<<"u7535", "u6C60">>, <<"u9502", "u7535">>, <<"u65B0", "u80FD", "u8F66">>, <<"u7535", "u52A8", "u8F66">>>>],
       [sector |-> <<"u7535", "u7F51", "u8BBE", "u5907">>, theme |-> <<"u5927", "u65B0", "u80FD", "u6E90">>,
        keywords |-> <<<<"u7535", "u7F51">>, <<"u7279", "u9AD8", "u538B">>>>],
       [sector |-> <<"u98DF", "u54C1", "u996E", "u6599">>, theme |-> <<"u5927", "u6D88", "u8D39">>,
        keywords |-> <<<<"u98DF", "u54C1">>, <<"u996E", "u6599">>, <<"u767D", "u9152">>, <<"u6D88", "u8D39">>>>],
       [sector |-> <<"u5BB6", "u7535", "u884C", "u4E1A">>, theme |-> <<"u5927", "u6D88", "u8D39">>,
        keywords |-> <<<<"u5BB6", "u7535">>>>],
       [sector |-> <<"u7F8E", "u5BB9", "u62A4", "u7406">>, theme |-> <<"u5927", "u6D88", "u8D39">>,
        keywords |-> <<<<"u533B", "u7F8E">>, <<"u7F8E", "u5BB9">>>>],
       [sector |-> <<"u533B", "u836F", "u5546", "u4E1A">>, theme |-> <<"u533B", "u7597", "u5065", "u5EB7">>,
        keywords |-> <<<<"u533B", "u836F">>>>],
       [sector |-> <<"u533B", "u7597", "u670D", "u52A1">>, theme |-> <<"u533B", "u7597", "u5065", "u5EB7">>,
        keywords |-> <<<<"u533B", "u7597">>>>],
       [sector |-> <<"u4E2D", "u836F">>, theme |-> <<"u533B", "u7597", "u5065", "u5EB7">>,
        keywords |-> <<<<"u4E2D", "u836F">>>>],
       [sector |-> <<"u623F", "u5730", "u4EA7", "u5F00", "u53D1">>, theme |-> <<"u623F", "u5730", "u4EA7">>,
        keywords |-> <<<<"u5730", "u4EA7">>, <<"u623F", "u5730", "u4EA7">>>>],
       [sector |-> <<"u6E38", "u620F">>, theme |-> <<"u4F20", "u5A92", "u002F", "u6E38", "u620F">>,
        keywords |-> <<<<"u6E38", "u620F">>>>],
       [sector |-> <<"u6587", "u5316", "u4F20", "u5A92">>, theme |-> <<"u4F20", "u5A92", "u002F", "u6E38", "u620F">>,
        keywords |-> <<<<"u4F20", "u5A92">>, <<"u5F71", "u89C6">>>>],
       [sector |-> <<"u56FD", "u9632", "u519B", "u5DE5">>, theme |-> <<"u519B", "u5DE5">>,
        keywords |-> <<<<"u519B", "u5DE5">>, <<"u56FD", "u9632">>>>],
       [sector |-> <<"u7164", "u70AD", "u884C", "u4E1A">>, theme |-> <<"u5468", "u671F", "u002F", "u6750", "u6599">>,
        keywords |-> <<<<"u7164", "u70AD">>>>],
       [sector |-> <<"u6709", "u8272", "u91D1", "u5C5E">>, theme |-> <<"u5468", "u671F", "u002F", "u6750", "u6599">>,
        keywords |-> <<<<"u6709", "u8272">>>>],
       [sector |-> <<"u94A2", "u94C1", "u884C", "u4E1A">>, theme |-> <<"u5468", "u671F", "u002F", "u6750", "u6599">>,
        keywords |-> <<<<"u94A2", "u94C1">>>>],
       [sector |-> <<"u5316", "u5B66", "u539F", "u6599">>, theme |-> <<"u5468", "u671F", "u002F", "u6750", "u6599">>,
        keywords |-> <<<<"u5316", "u5DE5">>>>],
       [sector |-> <<"u5DE5", "u7A0B", "u673A", "u68B0">>, theme |-> <<"u9AD8", "u7AEF", "u5236", "u9020">>,
        keywords |-> <<<<"u673A", "u68B0">>, <<"u5236", "u9020">>>>],
       [sector |-> <<"u4E13", "u7528", "u8BBE", "u5907">>, theme |-> <<"u9AD8", "u7AEF", "u5236", "u9020">>,
        keywords |-> <<<<"u8BBE", "u5907">>>>],
       [sector |-> <<"u7269", "u6D41", "u884C", "u4E1A">>, theme |-> <<"u4EA4", "u901A", "u8FD0", "u8F93">>,
        keywords |-> <<<<"u8FD0", "u8F93">>, <<"u7269", "u6D41">>, <<"u822A", "u8FD0">>, <<"u6E2F", "u53E3">>>>],
       [sector |-> <<"u519C", "u7267", "u9972", "u6E14">>, theme |-> <<"u5927", "u519C", "u4E1A">>,
        keywords |-> <<<<"u519C", "u4E1A">>, <<"u517B", "u6B96">>, <<"u755C", "u7267">>>>] >>

\* any(kw in etf_name for kw in keywords)
any_in(keywords, etf_name) ==
    \E k \in 1..Len(keywords) : Contains(etf_name, keywords[k])

\* the loop of lines 532-533 from rule i on, and the return of line 534
RECURSIVE last_match(_, _)
last_match(etf_name, i) ==
    IF i < 1 THEN other_result
    ELSE IF any_in(map_rules[i].keywords, etf_name)
    THEN <<map_rules[i].sector, map_rules[i].theme>>
    ELSE last_match(etf_name, i - 1)
RECURSIVE first_match(_, _)
first_match(etf_name, i) ==
    IF i > Len(map_rules) THEN other_result
    ELSE IF any_in(map_rules[i].keywords, etf_name)
    THEN <<map_rules[i].sector, map_rules[i].theme>>
    ELSE first_match(etf_name, i + 1)

rules_result_last(etf_name) == last_match(etf_name, Len(map_rules))
rules_result(etf_name) == first_match(etf_name, 1)

get_etf_sector_and_theme(etf_name) ==
    IF any_in(hk_keywords, etf_name) THEN hk_result ELSE rules_result(etf_name)

classify ==
    /\ ret = << >>
    /\ ret' = get_etf_sector_and_theme(inputs)
    /\ UNCHANGED <<cache_vars, run_vars, adapter_vars, etf_vars, file_vars, inputs>>

\* the characters of the names: 港, 股, 口, 消, 费, 电, 子 and E, which is in no keyword
NameChars == {"u6E2F", "u80A1", "u53E3", "u6D88", "u8D39", "u7535", "u5B50", "u0045"}

Names == UNION {[1..n -> NameChars] : n \in 0..MaxNameLen}

ThemeInit ==
    /\ IdleInit
    /\ inputs \in Names

ThemeNext == classify

SpecTheme == ThemeInit /\ [][ThemeNext]_vars

-----------------------------------------------------------------------------
(* The keys of the cache store: cache_data called, within one hour, with one   *)
(* logical name and different positional and keyword parameters.  The table a  *)
(* producer returns names the parameters it was called with.                    *)

\* cache_data("x", data_func, *args, **kwargs) with args one of (), ("a", "b"), ("a_b",)
\* and kwargs one of {}, {"b": "c"}
KeyCalls ==
    [filename : {<<"x">>},
     args : {<< >>, << <<"a">>, <<"b">> >>, << <<"a", "_", "b">> >>},
     kwargs : {<< >>, << << <<"b">>, <<"c">> >> >>},
     frequency : {"hourly"}]

\* the table data_func(*args, **kwargs) returns at time t
ProducedFor(c, t) == <<[asof |-> t, args |-> c.args, kwargs |-> c.kwargs]>>

\* what data_func(*args, **kwargs) can do at time t: raise, or return its table
KeyOutcomes(c, t) ==
    { [raised |-> TRUE, data |-> EmptyDataFrame],
      [raised |-> FALSE, data |-> ProducedFor(c, t)] }

KeysInit ==
    /\ IdleInit
    /\ inputs = << >>

KeysNext == \E c \in KeyCalls : \E o \in KeyOutcomes(c, now) : cache_data(c, o)

SpecKeys == KeysInit /\ [][KeysNext]_vars

-----------------------------------------------------------------------------
(* Properties of the cache store and of the index adapter, under SpecCache *)

Hours == 0..MaxHour

\* the bucket of time t under a frequency: the hour, or the day
BucketOf(freq, t) == IF freq = "hourly" THEN t ELSE DayOf(t)

\* the files cache_data writes for call c in the bucket of time t
EntriesOf(c, t) ==
    {unique_filename(c, u) : u \in {h \in Hours : BucketOf(c.frequency, h) = BucketOf(c.frequency, t)}}

\* the other persisted entries of the call that made path
EarlierEntries(path) ==
    {f \in DOMAIN disk :
        /\ f # path
        /\ \E c \in CacheCalls : \E t, u \in Hours :
              path = unique_filename(c, t) /\ f = unique_filename(c, u)}

\* C3: three-tier fallback.  When the live fetch fails or returns empty and an earlier
\* fetch for the same logical name succeeded, the result is the last successfully
\* fetched Table (get_index_tx: the last live Table of that market; cache_data: a
\* persisted entry of the same call), and an empty Table only when there is none.
C3_FallbackToLastFetched ==
    /\ (last.op = "get_index_tx" /\ last.failed /\ last.arg \in DOMAIN tx_good)
          => last.value = tx_good[last.arg]
    /\ (last.op = "cache_data" /\ last.failed /\ EarlierEntries(last.path) # {})
          => \E f \in EarlierEntries(last.path) : last.value = disk[f]

\* C4: a call that finds an entry for the current bucket, in memory or on disk, returns
\* that entry's Table and does not invoke the producer; so from its first success on
\* the producer of a key is invoked once per bucket.
C4_CacheHitSkipsProducer ==
    /\ (last.op \in {"cache_data", "cache_pkl"} /\ last.had)
          => (~last.invoked /\ last.value = last.entry)
    /\ \A path \in DOMAIN produced : produced[path] <= 1

C4_Witness ==
    /\ last.op = "cache_data"
    /\ last.had
    /\ last.path \in DOMAIN produced
    /\ last.path \notin DOMAIN _cache \/ last.value # EmptyDataFrame

\* C5: bucket isolation.  A Table returned by a call was produced in the bucket of the
\* call; a call that finds no entry for its bucket invokes the producer and, when that
\* succeeds, creates the entry; and a call leaves the entries of every other path as
\* they are.
C5_State ==
    (last.op \in {"cache_data", "cache_pkl"}) =>
        /\ \A i \in 1..Len(last.value) :
              BucketOf(last.arg, last.value[i].asof) = BucketOf(last.arg, now)
        /\ ~last.had => last.invoked
        /\ (~last.had /\ ~last.failed) =>
              /\ last.path \in DOMAIN disk \cup DOMAIN pkl_disk
              /\ EntryIn(disk, pkl_disk, last.path) = last.value

C5_Step ==
    (last'.op \in {"cache_data", "cache_pkl"}) =>
        /\ \A f \in DOMAIN disk : f # last'.path => (f \in DOMAIN disk' /\ disk'[f] = disk[f])
        /\ \A f \in DOMAIN pkl_disk :
              f # last'.path => (f \in DOMAIN pkl_disk' /\ pkl_disk'[f] = pkl_disk[f])
        /\ \A f \in DOMAIN _cache :
              f # last'.path => (f \in DOMAIN _cache' /\ _cache'[f] = _cache[f])

C5_BucketIsolation == [](C5_State) /\ [][C5_Step]_vars

\* a call in a later bucket of a key that has an entry of an earlier bucket
C5_Witness ==
    /\ last.op = "cache_data"
    /\ last.arg = "hourly"
    /\ ~last.had
    /\ last.value # EmptyDataFrame
    /\ \E f \in EarlierEntries(last.path) : disk[f] # EmptyDataFrame /\ disk[f] # last.value

\* C6: when there is no entry for the current bucket and the producer raises, the call
\* returns an empty Table, raises nothing and persists nothing: disk and memory are as
\* they were.
C6_State ==
    (last.op \in {"cache_data", "cache_pkl"} /\ last.failed) =>
        /\ last.value = EmptyDataFrame
        /\ ~last.raised
        /\ last.path \notin DOMAIN disk \cup DOMAIN pkl_disk \cup DOMAIN _cache

C6_Step ==
    (last'.op \in {"cache_data", "cache_pkl"} /\ last'.failed) =>
        (disk' = disk /\ pkl_disk' = pkl_disk /\ _cache' = _cache)

C6_ProducerFailure == [](C6_State) /\ [][C6_Step]_vars

\* a failed producer call while other entries are persisted
C6_Witness ==
    /\ last.op = "cache_data"
    /\ last.failed
    /\ \E f \in DOMAIN disk : disk[f] # EmptyDataFrame
    /\ _cache # << >>

\* C10: after the sweep every base entry is still there, every entry of the current
\* hour or day is still there, every entry of another hour or day is gone, and a
\* second sweep at the same time changes nothing.
IsBaseEntry(f) ==
    Len(f) >= Len(BaseSuffix) /\ SubSeq(f, Len(f) - Len(BaseSuffix) + 1, Len(f)) = BaseSuffix

StaleSeeds == {f \in SeedFiles : ~IsBaseEntry(f) /\ f[Len(f) - 4] \in Digit}

C10_Step ==
    (last'.op = "clean_old_cache" /\ dir_exists) =>
        /\ DOMAIN disk' \subseteq DOMAIN disk
        /\ \A f \in DOMAIN disk' : disk'[f] = disk[f]
        /\ \A f \in DOMAIN disk : IsBaseEntry(f) => f \in DOMAIN disk'
        /\ \A c \in CacheCalls : \A t \in Hours :
              unique_filename(c, t) \in DOMAIN disk =>
                 (unique_filename(c, t) \in DOMAIN disk'
                     <=> BucketOf(c.frequency, t) = BucketOf(c.frequency, now))
        /\ \A f \in StaleSeeds : f \notin DOMAIN disk'
        /\ Swept(disk', now) = disk'

C10_CleanupSweep == [][C10_Step]_vars

\* a sweep that removed an entry, kept an entry of the current bucket and kept a base
C10_Witness ==
    /\ last.op = "clean_old_cache"
    /\ \E f \in DOMAIN disk : IsBaseEntry(f)
    /\ \E f \in DOMAIN produced : f \notin DOMAIN disk
    /\ \E c \in CacheCalls : c.frequency = "daily" /\ unique_filename(c, now) \in DOMAIN disk
    /\ \E c \in CacheCalls : c.frequency = "hourly" /\ unique_filename(c, now) \in DOMAIN disk
    /\ \A f \in DOMAIN disk : ~Expired(f, now)

-----------------------------------------------------------------------------
(* Properties of the incremental series, under SpecIncr *)

IsIncr == last.op = "get_incremental_daily_data"

\* an extension that succeeded: a base was there and the producer returned rows
Extended == IsIncr /\ last.had /\ last.invoked /\ ~last.failed /\ last.batch # EmptyDataFrame

\* C7: after a successful extension the series returned is the series persisted, it has
\* at most one row per date, a date of the new batch carries the batch's (last) row for
\* it, and the maximum date is at least what it was.
C7_ExtensionMerges ==
    Extended =>
        /\ last.value = disk[last.path]
        /\ \A i, j \in 1..Len(last.value) :
              last.value[i].date = last.value[j].date => i = j
        /\ \A k \in 1..Len(last.batch) :
              (\A m \in (k + 1)..Len(last.batch) : last.batch[m].date # last.batch[k].date)
                 => \E i \in 1..Len(last.value) : last.value[i] = last.batch[k]
        /\ MaxDate(last.value) >= MaxDate(last.entry)

\* an extension that replaced the row of a date of the base and added a later date
C7_Witness ==
    /\ Extended
    /\ \E i \in 1..Len(last.entry) : \E k \in 1..Len(last.batch) :
          last.entry[i].date = last.batch[k].date /\ last.entry[i] # last.batch[k]
    /\ MaxDate(last.value) > MaxDate(last.entry)

\* C8: when a base exists and the producer raises, the call returns the base as it was
\* and the file is as it was; when the base is up to date (max date + 1 day > today)
\* the producer is not called and the base is returned as it was.
C8_FailedExtensionKeepsBase ==
    /\ (IsIncr /\ last.had /\ last.failed) =>
          (last.value = last.entry /\ disk[last.path] = last.entry /\ ~last.raised)
    /\ (IsIncr /\ last.had /\ last.entry # EmptyDataFrame
          /\ MaxDate(last.entry) + 1 > Today(now)) =>
          (~last.invoked /\ last.value = last.entry /\ disk[last.path] = last.entry)

C8_Witness ==
    /\ IsIncr
    /\ last.had
    /\ last.failed
    /\ Len(last.entry) >= 2

C8_WitnessUpToDate ==
    /\ IsIncr
    /\ last.had
    /\ ~last.invoked
    /\ last.value # EmptyDataFrame

\* C9: a base entry, once there, stays, and every date in it stays in it, whatever
\* get_incremental_daily_data and clean_old_cache do.
C9_Step ==
    \A f \in DOMAIN disk :
        IsBaseEntry(f) => (f \in DOMAIN disk' /\ DatesOf(disk[f]) \subseteq DatesOf(disk'[f]))

C9_BaseOnlyGrows == [][C9_Step]_vars

\* a base of several dates has gone through an extension and a sweep
C9_Witness ==
    /\ last.op = "clean_old_cache"
    /\ \E f \in DOMAIN disk :
          /\ IsBaseEntry(f)
          /\ Cardinality(DatesOf(disk[f])) >= 2
          /\ Cardinality({disk[f][i].val : i \in 1..Len(disk[f])}) >= 2
    /\ \A f \in DOMAIN disk : IsBaseEntry(f)

-----------------------------------------------------------------------------
(* Properties of the run pipeline, under SpecRun *)

\* the run has ended, by returning or by an exception that left run_analysis
Ended == pc \in {"done", "crashed"}

\* C1: a report is always produced: whatever data fetches fail, a run that has ended
\* has reached print_report, with the failed inputs degraded to empty, instead of ending
\* without a report
C1_ReportAlwaysProduced == Ended => report.entered

\* C2: every metric step is fault-isolated: an exception raised inside a metric step is
\* caught, leaves that metric's indicator at the empty value, and the run goes on to the
\* following steps
C2_MetricsFaultIsolated ==
    \A step \in raised_in \cap Metrics :
        /\ pc # "crashed"
        /\ analysis_result[IndicatorOf(step)] = "empty"

-----------------------------------------------------------------------------
(* Properties of the adapters, under SpecAdapters *)

\* the value an adapter documents for a failure
DefaultOf(op) ==
    CASE op = "get_market_activity_tx" -> <<0, 0>>
      [] op = "get_sector_tx" -> EmptySectorFrame
      [] op = "get_margin_sina" -> <<0, 0>>
      [] op = "get_north_money_em" -> 0

-----------------------------------------------------------------------------
(* Properties of the per-symbol technical batch, under SpecEtf *)

\* C12: checkpoint resume: a run that finds k of the n symbols in the checkpoint
\* submits fetches for exactly the other n - k symbols, each once, and when those
\* fetches succeed its result has exactly n entries with pairwise distinct codes
C12_CheckpointResume ==
    etf_run.op = "analyze_etf_technical" =>
        LET n == Len(inputs)
            k == Len(etf_run.loaded)
        IN /\ Len(etf_run.submitted) = n - k
           /\ {etf_run.submitted[i] : i \in 1..(n - k)}
                 = {inputs[i] : i \in 1..n} \ CodesOf(etf_run.loaded)
           /\ (etf_run.ended = "returned" /\ etf_run.fetched_ok) =>
                 /\ Len(etf_run.etf_technical) = n
                 /\ CodesOf(etf_run.etf_technical) = {inputs[i] : i \in 1..n}

\* a run resumed from a checkpoint of some but not all symbols has returned all of them
C12_Witness ==
    /\ etf_run.op = "analyze_etf_technical"
    /\ Len(etf_run.loaded) > 0
    /\ Len(etf_run.loaded) < Len(inputs)
    /\ etf_run.ended = "returned"
    /\ etf_run.fetched_ok
    /\ Len(etf_run.etf_technical) = Len(inputs)

-----------------------------------------------------------------------------
(* Properties of the industry map, under SpecIndustry *)

\* the boards whose constituent fetch succeeded and returned code
BoardsOf(code) ==
    {b \in 1..MaxIndustries :
        /\ inputs.fetches[b].ok
        /\ \E i \in 1..Len(inputs.fetches[b].codes) : inputs.fetches[b].codes[i] = code}

\* C13: the industry map may be partial: whichever constituent fetches fail, the map
\* holds exactly the codes of the boards whose fetch succeeded, each under a board that
\* returned it; a failing board neither aborts the map nor drops entries collected before
C13_PartialIndustryMap ==
    (ret # << >> /\ inputs.listing_ok) =>
        /\ ~ret.raised
        /\ DOMAIN ret.full_map = {code \in 1..MaxCodes : BoardsOf(code) # {}}
        /\ \A code \in DOMAIN ret.full_map : ret.full_map[code] \in BoardsOf(code)

\* a board failed after an earlier board had been entered, and the entries are there
C13_Witness ==
    /\ ret # << >>
    /\ inputs.listing_ok
    /\ inputs.fetches[1].ok
    /\ inputs.fetches[1].codes # << >>
    /\ ~inputs.fetches[MaxIndustries].ok
    /\ DOMAIN ret.full_map # {}

-----------------------------------------------------------------------------
(* Properties of writing a cache file, under SpecFile *)

\* C14: cache-file writes are whole-file replace: a reader of the file finds the
\* complete previous content or the complete new content, never an empty or
\* half-written file
C14_WholeFileReplace == ret # << >> => ~ret.raised

-----------------------------------------------------------------------------
(* Properties of the commentary and of the report, under SpecRun *)

\* C15: narrative commentary failure: whenever the call of the text-generation service
\* failed, the commentary stored for the report is the one fixed fallback string,
\* whatever the failure was
C15_FixedFallbackCommentary ==
    ("chat_volces" \in raised_in /\ pc \in {"print_report", "done"}) =>
        analysis_result["conclusion_raw"] = FallbackConclusion

\* the sections of the report that stand for an indicator
IndicatorSections == {"market_stage", "macro", "sentiment", "heat_map", "final_ranking"}

\* C16: missing sections are rendered explicitly: a written report holds the section of
\* every indicator, with a placeholder where the indicator is unavailable; no section
\* is left out
C16_NoSectionOmitted == report.written => IndicatorSections \subseteq report.sections

-----------------------------------------------------------------------------
(* Properties of the sentiment indicator, under SpecSentiment *)

\* C17: profit_effect lies in [0, 100] for all non-negative counts, and is exactly 50.0
\* when up_count + down_count is 0
C17_ProfitEffectRange ==
    ret # << >> =>
        /\ 0 <= ret.profit_effect /\ ret.profit_effect <= 10000
        /\ inputs.up_count + inputs.down_count = 0 => ret.profit_effect = 5000

\* both counts were 0 and the default came out
C17_Witness ==
    /\ ret # << >>
    /\ inputs.up_count = 0 /\ inputs.down_count = 0
    /\ ret.profit_effect = 5000

\* C18: sentiment mapping: every profit effect, rising-volume count and congestion gets
\* exactly one of the 4 labels, by the fixed thresholds; whenever the congestion is above
\* 90% the reasons include the congestion caution, whatever the label; up=600, down=400
\* gives 60.00, and with a congestion of 95% the caution is among the reasons
C18_SentimentMapping ==
    ret # << >> =>
        LET p == ret.profit_effect
            reasons == {ret.sentiment_reason[i] : i \in 1..Len(ret.sentiment_reason)}
        IN /\ ret.sentiment \in {"greedy", "optimistic", "neutral_cool", "panic"}
           /\ ret.sentiment = "greedy" <=> (p > 6500 /\ inputs.zt_count > 80)
           /\ ret.sentiment = "optimistic" <=> (p > 5000 /\ ~(p > 6500 /\ inputs.zt_count > 80))
           /\ ret.sentiment = "neutral_cool" <=> (4000 <= p /\ p <= 5000)
           /\ ret.sentiment = "panic" <=> p < 4000
           /\ inputs.congestion > 900 => "congestion_high" \in reasons
           /\ (inputs.up_count = 600 /\ inputs.down_count = 400) => p = 6000

\* scenario B: 600 up, 400 down, congestion 95%
C18_Witness ==
    /\ ret # << >>
    /\ inputs.up_count = 600 /\ inputs.down_count = 400 /\ inputs.congestion = 950
    /\ ret.profit_effect = 6000
    /\ ret.sentiment = "optimistic"
    /\ ret.sentiment_reason = <<"profit_good", "congestion_high">>

-----------------------------------------------------------------------------
(* Properties of the liquidity indicator, under SpecLiquidity *)

\* C19: in POST_MARKET mode the combined amount T of the day is the turnover classified,
\* against the reference of 10000, into exactly one of four bands: T < 7000, 7000 <= T <=
\* 15000 (normal), 15000 < T <= 25000, T > 25000; volume_change_desc reports an increase
\* of T - yesterday when T >= yesterday and a decrease of yesterday - T otherwise; today
\* 12000 and yesterday 9000 give the normal band and an increase of 3000
C19_TurnoverLevel ==
    (ret # << >> /\ run_mode = "POST_MARKET") =>
        LET T == ret.total_turnover
            Y == ret.yesterday_turnover
            desc == ret.volume_change_desc
        IN /\ ret.volume_analysis_turnover = [num |-> T, den |-> 1, estimated |-> FALSE]
           /\ ret.volume_qualitative_level \in {"low", "normal", "high", "huge"}
           /\ ret.volume_qualitative_level = "low" <=> T < 7000
           /\ ret.volume_qualitative_level = "normal" <=> (7000 <= T /\ T <= 15000)
           /\ ret.volume_qualitative_level = "high" <=> (15000 < T /\ T <= 25000)
           /\ ret.volume_qualitative_level = "huge" <=> T > 25000
           /\ T >= Y => desc = [estimated |-> FALSE, direction |-> "expand",
                                num |-> T - Y, den |-> 1]
           /\ T < Y => desc = [estimated |-> FALSE, direction |-> "shrink",
                               num |-> Y - T, den |-> 1]
           /\ (T = 12000 /\ Y = 9000) =>
                 /\ ret.volume_qualitative_level = "normal"
                 /\ desc.direction = "expand" /\ desc.num = 3000

\* scenario A: today 12000, yesterday 9000, after the close
C19_Witness ==
    /\ ret # << >>
    /\ run_mode = "POST_MARKET"
    /\ ret.total_turnover = 12000 /\ ret.yesterday_turnover = 9000
    /\ ret.volume_qualitative_level = "normal"
    /\ ret.volume_change_desc.direction = "expand"
    /\ ret.volume_change_desc.num = 3000

-----------------------------------------------------------------------------
(* Properties of the intraday estimate, under SpecElapsed *)

\* the elapsed trading minutes of the claim, by the time of day
ElapsedShape(t) ==
    /\ t < 570 => _get_elapsed_trading_minutes(t) = 0
    /\ (570 <= t /\ t <= 690) => _get_elapsed_trading_minutes(t) = t - 570
    /\ (690 < t /\ t < 780) => _get_elapsed_trading_minutes(t) = 120
    /\ (780 <= t /\ t <= 900) => _get_elapsed_trading_minutes(t) = 120 + (t - 780)
    /\ t > 900 => _get_elapsed_trading_minutes(t) = 240
    /\ _get_elapsed_trading_minutes(t) \in 0..240
    /\ t > 0 => _get_elapsed_trading_minutes(t - 1) <= _get_elapsed_trading_minutes(t)

\* C20: whenever the run mode is not POST_MARKET, the turnover classified is
\* observed * 240 / elapsed_trading_minutes
C20_IntradayExtrapolation ==
    (ret # << >> /\ run_mode # "POST_MARKET") =>
        /\ _get_elapsed_trading_minutes(ret.clock) > 0
        /\ ret.volume_analysis_turnover =
              [num |-> ret.total_turnover * 240,
               den |-> _get_elapsed_trading_minutes(ret.clock), estimated |-> TRUE]

\* C20, amended: whenever the run mode is not POST_MARKET and the elapsed trading minutes
\* are above 0, the turnover classified is observed * 240 / elapsed_trading_minutes; in
\* POST_MARKET mode, and before 09:30 in LIVE_MORNING mode, where the elapsed minutes are
\* 0, it is the observed value; the elapsed minutes are a non-decreasing function of the
\* time of day with values in [0, 240], of the five pieces of the claim; no division by 0
C20_IntradayExtrapolationWhenElapsed ==
    ret # << >> =>
        LET el == _get_elapsed_trading_minutes(ret.clock)
            v == ret.volume_analysis_turnover
        IN /\ ElapsedShape(ret.clock)
           /\ v.den > 0
           /\ (run_mode # "POST_MARKET" /\ el > 0) =>
                 v = [num |-> ret.total_turnover * 240, den |-> el, estimated |-> TRUE]
           /\ (run_mode = "POST_MARKET" \/ el = 0) =>
                 v = [num |-> ret.total_turnover, den |-> 1, estimated |-> FALSE]

\* LIVE_MORNING at 10:30: 60 minutes have elapsed and the day is estimated at four times
\* the observed 7000
C20_Witness ==
    /\ ret # << >>
    /\ run_mode = "LIVE_MORNING"
    /\ ret.clock = 630
    /\ ret.total_turnover = 7000
    /\ ret.volume_analysis_turnover = [num |-> 7000 * 240, den |-> 60, estimated |-> TRUE]
    /\ ret.volume_qualitative_level = "huge"

-----------------------------------------------------------------------------
(* Properties of the leverage indicator, under SpecLeverage *)

\* C21: the leverage ratio total_margin_balance / market cap * 100 is classified into
\* exactly one of four ordered bands: ratio < 1.8 low, 1.8 <= ratio < 2.2 medium,
\* 2.2 <= ratio < 2.5 elevated, ratio >= 2.5 risk zone; the boundary values 1.8, 2.2 and
\* 2.5 fall in the upper band
C21_LeverageBands ==
    (ret # << >> /\ inputs.total_circulating_market_cap > 0) =>
        LET n == inputs.total_margin_balance * 1000
            c == inputs.total_circulating_market_cap
        IN /\ ret.leverage_level \in {"low", "medium", "elevated", "risk_zone"}
           /\ ret.leverage_level = "low" <=> n < 18 * c
           /\ ret.leverage_level = "medium" <=> (18 * c <= n /\ n < 22 * c)
           /\ ret.leverage_level = "elevated" <=> (22 * c <= n /\ n < 25 * c)
           /\ ret.leverage_level = "risk_zone" <=> n >= 25 * c

-----------------------------------------------------------------------------
(* Properties of the market stage, under SpecStage *)

\* C22: when both margin-balance tables are empty, the leverage indicator is {} and
\* analyze_market_stage still completes from the remaining inputs, with the generic
\* narrative "stage features not evident" as its stage description
C22_UnclearStageWithoutMargin ==
    (/\ ret # << >>
     /\ inputs.sh_margin = "empty" /\ inputs.sz_margin = "empty"
     /\ ret.market_stage # "unset") =>
        /\ ret.margin_trading = "empty"
        /\ inputs.liquidity.main_net_inflow # "nan" => ret.market_stage = "unclear"

-----------------------------------------------------------------------------
(* Properties of the sector heat map, under SpecHeat *)

\* the percentile r2 * 100 / (2 * n) lies in (0, 100]
InPercentileRange(r2, n) == 0 < r2 /\ r2 * 100 <= 100 * (2 * n)

\* the heat map lists the sectors in non-increasing heat order, and a sector with both the
\* maximum count and the maximum inflow has a heat not below that of any other sector
HeatOrdered ==
    LET n == Len(ret)
    IN /\ \A i \in 1..(n - 1) : ret[i].heat >= ret[i + 1].heat
       /\ \A i \in 1..n :
             (\A j \in 1..n : ret[i].count >= ret[j].count /\ ret[i].inflow >= ret[j].inflow)
                => \A j \in 1..n : ret[i].heat >= ret[j].heat

\* C23: for every non-empty set of N sectors both percentile ranks lie in (0, 100], heat =
\* 0.7 * rank(count) + 0.3 * rank(inflow), a sector with both the maximum count and the
\* maximum inflow has a heat >= that of every other sector, and the heat map is in
\* non-increasing heat order
C23_SectorHeat ==
    ret # << >> =>
        LET n == Len(ret)
        IN /\ \A i \in 1..n :
                 /\ InPercentileRange(ret[i].count_rank2, n)
                 /\ InPercentileRange(ret[i].inflow_rank2, n)
                 /\ ret[i].heat * n = (7 * ret[i].count_rank2 + 3 * ret[i].inflow_rank2) * 500
           /\ HeatOrdered

\* C23, amended: the percentile rank of the count lies in (0, 100]; that of the inflow lies
\* in (0, 100] when the table has the net inflow column and is 0 for every sector when it
\* has not; heat = 0.7 * rank(count) + 0.3 * rank(inflow) rounded to 2 decimals; the
\* sector with both maxima has a heat >= that of every other, and the heat map is in
\* non-increasing heat order
C23_SectorHeatRounded ==
    ret # << >> =>
        LET n == Len(ret)
        IN /\ \A i \in 1..n :
                 /\ InPercentileRange(ret[i].count_rank2, n)
                 /\ inputs.has_inflow => InPercentileRange(ret[i].inflow_rank2, n)
                 /\ ~inputs.has_inflow => ret[i].inflow_rank2 = 0
                 /\ ret[i].heat =
                       round_half_even((7 * ret[i].count_rank2 + 3 * ret[i].inflow_rank2) * 500, n)
           /\ HeatOrdered

\* three sectors of three different heats, the first on both counts leading the map
C23_Witness ==
    /\ ret # << >>
    /\ inputs.has_inflow
    /\ Len(ret) = 3
    /\ ret[1].heat = 10000
    /\ ret[1].heat > ret[2].heat /\ ret[2].heat > ret[3].heat
    /\ ret[2].heat * 3 # (7 * ret[2].count_rank2 + 3 * ret[2].inflow_rank2) * 500

-----------------------------------------------------------------------------
(* Properties of the composite score, under SpecScoring *)

\* C24: for every base score and every sector heat, a missing sector counting as heat 50,
\* final_score = clamp(base_score + (heat_value - 50) / 15, 0, 5); every score of the final
\* ranking lies in [0, 5]
C24_FinalScoreClamped ==
    ret # << >> =>
        \A i \in 1..Len(ret) :
            LET h == IF ret[i].in_heat_map THEN ret[i].heat ELSE 5000
                raw == ret[i].base_score * 150 + (h - 5000)
            IN /\ 0 <= ret[i].final_score /\ ret[i].final_score <= 7500
               /\ raw < 0 => ret[i].final_score = 0
               /\ raw > 7500 => ret[i].final_score = 7500
               /\ (0 <= raw /\ raw <= 7500) => ret[i].final_score = raw

\* a ranking of a score clamped from above and a score clamped from below, the latter of
\* an instrument whose sector is missing from the heat map
C24_Witness ==
    /\ ret # << >>
    /\ Len(ret) = 2
    /\ ret[1].final_score = 7500 /\ ret[1].base_score = 1000
    /\ ret[2].final_score = 0 /\ ret[2].base_score = -1000 /\ ~ret[2].in_heat_map

-----------------------------------------------------------------------------
(* Properties of the theme of an instrument, under SpecTheme *)

\* the rules in table order, the Hong Kong rule first
OrderedRules ==
    <<[sector |-> hk_result[1], theme |-> hk_result[2], keywords |-> hk_keywords]>>
    \o map_rules

\* C25: get_etf_sector_and_theme returns the (sector, theme) of the first rule in table
\* order, the Hong Kong rule being first, one of whose keywords occurs in the name, and
\* the 'other' theme when no rule matches; the theme is always a member of SECTOR_THEMES
C25_FirstMatchWins ==
    ret # << >> =>
        LET matching == {i \in 1..Len(OrderedRules) :
                            \E k \in 1..Len(OrderedRules[i].keywords) :
                                Contains(inputs, OrderedRules[i].keywords[k])}
        IN /\ ret[2] \in SECTOR_THEMES
           /\ matching = {} => ret = other_result
           /\ \A i \in matching :
                 (\A j \in matching : i <= j)
                    => ret = <<OrderedRules[i].sector, OrderedRules[i].theme>>

\* 消费电子 holds the keywords of two rules, 消费电子 and 消费: the earlier rule, of the
\* theme 科技/半导体, wins
C25_Witness ==
    /\ ret # << >>
    /\ inputs = <<"u6D88", "u8D39", "u7535", "u5B50">>
    /\ ret = <<<<"u6D88", "u8D39", "u7535", "u5B50">>, <<"u79D1", "u6280", "u002F", "u534A", "u5BFC", "u4F53">>>>

-----------------------------------------------------------------------------
(* Error handling of the incremental series, under SpecIncr *)

\* C26: get_incremental_daily_data never propagates an exception: whether data_func
\* succeeds, raises or returns an empty table, a first seeding call that persisted an
\* empty table included, every call returns a table
C26_NeverPropagates ==
    last.op = "get_incremental_daily_data" => ~last.raised

-----------------------------------------------------------------------------
(* Properties of the keys of the cache store, under SpecKeys *)

\* C27: two cache_data calls in the same bucket and of the same frequency, with different
\* (logical name, positional parameters, keyword parameters), never map to the same cache
\* entry, so a call never returns a table that was produced for different parameters:
\* the entry that a call maps to, once stored, was produced for the parameters of the call
C27_KeysInjective ==
    \A c \in KeyCalls :
        unique_filename(c, now) \in DOMAIN _cache
           => _cache[unique_filename(c, now)] = ProducedFor(c, now)

====
